---- MODULE Spec2Model ----
(***************************************************************************)
(* Verification model of the liqubit-dao data-acquisition layer:           *)
(*   - CacheManager           (cache/cache-manager.ts)                     *)
(*   - EnhancedMarketDataAggregator.aggregateData / fetchFromProvider      *)
(*   - MarketDataAggregator.fetchTokenData / fetchWithRetry                *)
(*   - RateLimiter.acquire and fetchWithRetry (providers/utils.ts)         *)
(*   - CoinGeckoProvider.makeRequest (the adapter's limiter and retries)   *)
(*   - DataMonitor and withMonitoring (monitoring/data-monitor.ts)         *)
(*   - MarketService.getMarketData and its two providers                   *)
(*   - validateResponse (providers/utils.ts)                               *)
(* JavaScript values are modelled as tagged records; time is the integer   *)
(* value of Date.now().                                                    *)
(***************************************************************************)
EXTENDS Integers, Sequences, FiniteSets, TLC

VARIABLES
    now,        \* Date.now()
    cache,      \* CacheManager.cache: the Map, as the sequence of its entries in Map iteration order
    lastOp,     \* history: the CacheManager call (or timer step) that produced this state
    watch,      \* history: one earlier set(key, data) call, picked arbitrarily: its key, time and data, and
                \* whether evictOldest has removed that key since; dropped when the key is set again
    tok,        \* one MarketDataAggregator.fetchTokenData call: its position, its three sub-fetches, its result
    providers,  \* EnhancedMarketDataAggregator.providers: the keys of the Map, in insertion order
    aggCache,   \* EnhancedMarketDataAggregator.cache: the Map of its CacheManager
    fetch,      \* the aggregateData calls: position, arguments, per-provider fetchFromProvider call, result
    clock,      \* Date.now() as the RateLimiter instances read it
    limiters,   \* the RateLimiter instances: lastRequest, the requestQueue chain, the running timer
    calls,      \* history: the acquire() calls in the order they were made
    returns,    \* history: the acquire() returns in the order they happened
    retry,      \* one fetchWithRetry call: its arguments, loop variables, time, outcome and event log
    stored,     \* history: the last result aggregateData put into its cache: symbol, method, key, time,
                \* and whether every adapter had failed
    adapter,    \* one fetchFromProvider call on the CoinGecko adapter: the aggregator's retry loop, the
                \* retry loop of the adapter's makeRequest, and the network attempts made
    out,        \* the fetchFromProvider calls of EnhancedMarketDataAggregator on one provider: the
                \* aggregator's RateLimiter, the adapter's own, each call's position, the times of
                \* the network calls made
    monitor,    \* the DataMonitor singleton and the withMonitoring calls: DataMonitor.metrics, Date.now(),
                \* and for each call its provider, start time, the outcome of its operation and the
                \* outcome of the promise withMonitoring returned
    svc,        \* one MarketService.getMarketData call: its symbol, its position in the provider loop,
                \* lastError, its outcome, and history: the provider calls completed so far
    val         \* one validateResponse call: the response object, the required fields and how it ended

cacheVars == <<now, cache, lastOp, watch>>
tokVars == <<tok>>
aggVars == <<providers, aggCache, fetch, stored>>
limVars == <<clock, limiters, calls, returns>>
vars == <<now, cache, lastOp, watch, tok, providers, aggCache, fetch, clock, limiters, calls, returns, retry, stored, adapter, out, monitor, svc, val>>

\* What each component leaves alone.
notCache == <<tok, providers, aggCache, fetch, limVars, retry, stored, adapter, out, monitor, svc, val>>
notTok == <<now, cache, lastOp, watch, providers, aggCache, fetch, limVars, retry, stored, adapter, out, monitor, svc, val>>
notAgg == <<cache, lastOp, watch, tok, limVars, retry, adapter, out, monitor, svc, val>>
notAdapter == <<now, cache, lastOp, watch, tok, providers, aggCache, fetch, limVars, retry, stored, out, monitor, svc, val>>
notLim == <<now, cache, lastOp, watch, tok, providers, aggCache, fetch, retry, stored, adapter, out, monitor, svc, val>>
notRetry == <<now, cache, lastOp, watch, tok, providers, aggCache, fetch, limVars, stored, adapter, out, monitor, svc, val>>

(***************************************************************************)
(* Bounds of the model.                                                    *)
(***************************************************************************)
MaxTime == 3

\* CacheConfig of the CacheManager under test: ttl (ms, here clock ticks) and maxSize.
CacheTTL == 2
CacheMaxSize == 2
\* RateLimiter: minInterval, how far the clock runs past its start, and how many
\* acquire() calls are made.
MinInterval == 2
Horizon == 3
MaxCalls == 3
\* fetchWithRetry: the largest maxRetries tried.
MaxAttempts == 3
\* The calls made while others are in flight: fetchFromProvider on one provider, withMonitoring.
MaxFetches == 2

(***************************************************************************)
(* JavaScript values.                                                      *)
(***************************************************************************)
Null == [tag |-> "null"]
Undefined == [tag |-> "undefined"]

\* JavaScript truthiness of a value: null and undefined are falsy, objects are truthy.
Truthy(v) == v.tag \notin {"null", "undefined"}

\* JavaScript truthiness of a string: only the empty string is falsy.
TruthyString(s) == s # ""

\* The keys and the values the cache is exercised with (the empty string included).
Keys == {"", "key1", "key2"}
Values == {Null,
           [tag |-> "object", id |-> 1, nested |-> [value |-> TRUE], array |-> <<1, 2, 3>>]}

(***************************************************************************)
(* Map<string, CacheEntry<T>>: a sequence of entries with distinct keys,   *)
(* in insertion order (the order Map.entries() iterates in).               *)
(***************************************************************************)
MapKeys(m) == {m[i].key : i \in 1..Len(m)}

MapHas(m, k) == k \in MapKeys(m)

MapIndex(m, k) == CHOOSE i \in 1..Len(m) : m[i].key = k

\* Map.get: the entry of k (only used where MapHas(m, k)).
MapGet(m, k) == m[MapIndex(m, k)]

\* A Map.set that leaves the entry of an existing key as it was.
MapSet_KeepExisting(m, k, e) ==
    IF MapHas(m, k) THEN m ELSE Append(m, e)

\* Map.set: an existing key keeps its place in the iteration order, a new key goes last.
MapSet(m, k, e) ==
    IF MapHas(m, k)
    THEN [i \in 1..Len(m) |-> IF m[i].key = k THEN e ELSE m[i]]
    ELSE Append(m, e)

\* Map.delete
MapDelete(m, k) == SelectSeq(m, LAMBDA e : e.key # k)

(***************************************************************************)
(* CacheManager                                                            *)
(***************************************************************************)
\* The entry set() builds.
NewEntry(k, data, t, ttl) ==
    [key |-> k, data |-> data, timestamp |-> t, expiresAt |-> t + ttl]

\* evictOldest's loop: the scan over cache.entries(), started with
\* oldestKey = null (found = FALSE) and oldestTimestamp = Infinity.
\* A scan that picks the entry with the largest timestamp.
RECURSIVE OldestScan_Newest(_, _, _)
OldestScan_Newest(m, i, acc) ==
    IF i > Len(m) THEN acc
    ELSE OldestScan_Newest(m, i + 1,
            IF ~acc.found \/ m[i].timestamp > acc.timestamp
            THEN [found |-> TRUE, key |-> m[i].key, timestamp |-> m[i].timestamp]
            ELSE acc)

RECURSIVE OldestScan(_, _, _)
OldestScan(m, i, acc) ==
    IF i > Len(m) THEN acc
    ELSE OldestScan(m, i + 1,
            IF ~acc.found \/ m[i].timestamp < acc.timestamp
            THEN [found |-> TRUE, key |-> m[i].key, timestamp |-> m[i].timestamp]
            ELSE acc)

OldestKey(m) == OldestScan(m, 1, [found |-> FALSE, key |-> "", timestamp |-> 0])

\* evictOldest: `if (oldestKey) this.cache.delete(oldestKey)`.
EvictOldest(m) ==
    LET o == OldestKey(m)
    IN  IF o.found /\ TruthyString(o.key) THEN MapDelete(m, o.key) ELSE m

\* set(key, data) at time t on a cache with the given ttl and maxSize: the map after it.
CacheSet(m, k, data, t, ttl, maxSize) ==
    LET m1 == MapSet(m, k, NewEntry(k, data, t, ttl))
    IN  IF Len(m1) > maxSize THEN EvictOldest(m1) ELSE m1

\* An expiry test that never finds an entry expired.
IsExpired_Never(t, entry) == FALSE

\* get's expiry test: `Date.now() > entry.expiresAt`.
IsExpired(t, entry) == t > entry.expiresAt

\* A get that refreshes the entry it serves, as an LRU cache would: the entry is
\* re-inserted with the access time as its timestamp.
CacheGet_Touch(m, k, t) ==
    IF ~MapHas(m, k) THEN [map |-> m, result |-> Null]
    ELSE IF IsExpired(t, MapGet(m, k))
         THEN [map |-> MapDelete(m, k), result |-> Null]
         ELSE [map |-> Append(MapDelete(m, k), [MapGet(m, k) EXCEPT !.timestamp = t]),
               result |-> MapGet(m, k).data]

\* get(key) at time t: the map after it and the value returned.
CacheGet(m, k, t) ==
    IF ~MapHas(m, k) THEN [map |-> m, result |-> Null]
    ELSE IF IsExpired(t, MapGet(m, k))
         THEN [map |-> MapDelete(m, k), result |-> Null]
         ELSE [map |-> m, result |-> MapGet(m, k).data]

\* A cleanup callback that deletes nothing.
CacheCleanup_Nothing(m, t) == m

\* The period startCleanupInterval gives to setInterval is
\* `Math.min(this.config.ttl / 2, 60000)`; twice that period, to stay in the integers.
MaxCleanupInterval == 60000
TwiceCleanupInterval(ttl) == IF ttl <= 2 * MaxCleanupInterval THEN ttl ELSE 2 * MaxCleanupInterval

\* The setInterval callback of startCleanupInterval at time t.
CacheCleanup(m, t) == SelectSeq(m, LAMBDA e : ~(t > e.expiresAt))

\* Initial values of the history variables.
NoOp == [op |-> "none", key |-> "", found |-> FALSE, result |-> Null]

NoWatch == [on |-> FALSE, key |-> "", at |-> 0, data |-> Null, evicted |-> FALSE]

NoStore == [on |-> FALSE, symbol |-> "", method |-> "", key |-> "", at |-> 0, allFailed |-> FALSE]

(***************************************************************************)
(* RateLimiter (providers/utils.ts)                                        *)
(* The requestQueue promise chain is the sequence of the acquire() calls   *)
(* that have not returned yet, each with the timeToWait it computed when   *)
(* it was called; the head's setTimeout is the one running timer.          *)
(***************************************************************************)
\* One limiter per provider, as the aggregator's rateLimiters map holds them.
Limiters == {"coingecko", "cookiefun"}

\* Date.now() when the limiters are constructed: lastRequest starts at 0 and the
\* epoch clock is beyond 0 + minInterval, so a fresh limiter computes no wait.
StartTime == MinInterval
MaxClock == StartTime + Horizon

Max(a, b) == IF a >= b THEN a ELSE b

\* A wait that is always zero.
TimeToWait_Zero(lastRequest, minInterval, t) == 0

\* `Math.max(0, this.lastRequest + this.minInterval - now)`
TimeToWait(lastRequest, minInterval, t) == Max(0, lastRequest + minInterval - t)

NoTimer == [set |-> FALSE, at |-> 0]

\* `lastRequest = 0; requestQueue = Promise.resolve()`
NewLimiter == [lastRequest |-> 0, queue |-> <<>>, timer |-> NoTimer]

\* A chain that puts the new call ahead of the waiting ones.
ChainThen_Front(queue, e) == <<e>> \o queue

\* `this.requestQueue = this.requestQueue.then(...)`: the new call waits behind
\* every call chained before it.
ChainThen(queue, e) == Append(queue, e)

\* A chain in which the next callback is never run.
NextTimer_Dropped(rest, t) == NoTimer

\* When the promise of the call ahead resolves, the next `.then` callback runs and
\* starts `setTimeout(resolve, timeToWait)` with the wait computed at call time.
NextTimer(rest, t) ==
    IF rest = <<>> THEN NoTimer ELSE [set |-> TRUE, at |-> t + Head(rest).timeToWait]

\* setTimeout fires no earlier than its delay.
TimerDue(timer, t) == timer.set /\ t >= timer.at

\* The limiters as constructed, no acquire() made yet.
LimQuiet ==
    /\ clock = StartTime
    /\ limiters = [l \in Limiters |-> NewLimiter]
    /\ calls = <<>>
    /\ returns = <<>>

(***************************************************************************)
(* fetchWithRetry (providers/utils.ts) and the aggregator's own            *)
(* fetchWithRetry (market-data-aggregator.ts, first class).                *)
(***************************************************************************)
\* The two implementations.
RetryImpls == {"utils", "class"}

\* RetryConfig values; for the class method maxRetries is its `attempts` argument and
\* baseDelay its retryDelay field, maxDelay is not used.
RetryConfigs == [maxRetries : 0..MaxAttempts, baseDelay : {1, 2}, maxDelay : {2, 3}]

\* Messages of the errors the operation throws.
OpErrors == {"Network error", "HTTP 500"}

Min(a, b) == IF a <= b THEN a ELSE b

\* Math.pow(2, n)
RECURSIVE Pow2(_)
Pow2(n) == IF n = 0 THEN 1 ELSE 2 * Pow2(n - 1)

\* A backoff without the maxDelay cap.
BackoffDelay_Uncapped(config, attempt) == config.baseDelay * Pow2(attempt)

\* utils.ts: `Math.min(config.baseDelay * Math.pow(2, attempt), config.maxDelay)`
BackoffDelay(config, attempt) == Min(config.baseDelay * Pow2(attempt), config.maxDelay)

\* market-data-aggregator.ts: `this.retryDelay * Math.pow(2, i)`
ClassDelay(retryDelay, i) == retryDelay * Pow2(i)

RetryDelay(impl, config, attempt) ==
    IF impl = "utils" THEN BackoffDelay(config, attempt) ELSE ClassDelay(config.baseDelay, attempt)

\* A loop that runs one iteration more.
LoopRuns_OneMore(attempt, maxRetries) == attempt <= maxRetries

\* The for condition: `attempt < config.maxRetries`
LoopRuns(attempt, maxRetries) == attempt < maxRetries

\* The condition of the wait in the catch block: `attempt < config.maxRetries - 1`
WaitsAfter(attempt, maxRetries) == attempt < maxRetries - 1

\* `let lastError = null`
NoError == [tag |-> "null"]

\* The Error the operation throws.
OpError(msg) == [tag |-> "Error", message |-> msg]

\* A catch block that keeps the first error it saw.
CatchAssign_KeepFirst(lastError, error) == IF lastError = NoError THEN error ELSE lastError

\* `lastError = error as Error`
CatchAssign(lastError, error) == error

\* `lastError?.message`
MessageOf(lastError) == IF lastError = NoError THEN "undefined" ELSE lastError.message

\* `statusCode?: number` left out of a constructor call.
NoStatus == [tag |-> "undefined"]

\* `statusCode?: number` given as the number n.
StatusCode(n) == [tag |-> "number", value |-> n]

\* new ProviderError(message, provider, statusCode)
ProviderError(message, provider, statusCode) ==
    [tag |-> "ProviderError", provider |-> provider, message |-> message, statusCode |-> statusCode]

\* new ProviderError(`${providerName} request failed after ${maxRetries} attempts:
\* ${lastError?.message}`, providerName): the message is kept as its three parts.
ExhaustedError(providerName, maxRetries, lastError) ==
    ProviderError([provider |-> providerName, attempts |-> maxRetries, cause |-> MessageOf(lastError)],
                  providerName, NoStatus)

\* What the function throws after the loop: utils.ts wraps, the class method
\* throws lastError itself.
ThrownAfterLoop(impl, providerName, maxRetries, lastError) ==
    IF impl = "utils" THEN ExhaustedError(providerName, maxRetries, lastError) ELSE lastError

RetryIdle ==
    [pc |-> "idle", impl |-> "utils", config |-> [maxRetries |-> 0, baseDelay |-> 1, maxDelay |-> 2],
     providerName |-> "", attempt |-> 0, lastError |-> NoError, time |-> 0, wakeAt |-> 0,
     outcome |-> Null, log |-> <<>>]

\* The loop reaches its condition with the given attempt number at the given time:
\* either the operation is invoked or the function throws.
LoopHead(r, attempt, t) ==
    IF LoopRuns(attempt, r.config.maxRetries)
    THEN [r EXCEPT !.pc = "attempting", !.attempt = attempt,
                   !.log = Append(@, [ev |-> "invoke", at |-> t, msg |-> "", delay |-> 0, val |-> Null])]
    ELSE [r EXCEPT !.pc = "thrown", !.attempt = attempt,
                   !.outcome = ThrownAfterLoop(r.impl, r.providerName, r.config.maxRetries, r.lastError)]

\* The catch block, the operation having thrown an Error with message msg.
Catch(r, msg) ==
    LET r1 == [r EXCEPT !.lastError = CatchAssign(@, OpError(msg))]
        delay == RetryDelay(r.impl, r.config, r.attempt)
    IN  IF WaitsAfter(r.attempt, r.config.maxRetries)
        THEN [r1 EXCEPT !.pc = "waiting", !.wakeAt = r.time + delay,
                        !.log = Append(@, [ev |-> "fail", at |-> r.time, msg |-> msg, delay |-> delay, val |-> Null])]
        ELSE LoopHead([r1 EXCEPT !.log = Append(@, [ev |-> "fail", at |-> r.time, msg |-> msg, delay |-> 0, val |-> Null])],
                      r.attempt + 1, r.time)

(***************************************************************************)
(* CoinGeckoProvider.makeRequest (the provider built on RateLimiter and    *)
(* fetchWithRetry) as EnhancedMarketDataAggregator.fetchFromProvider calls *)
(* it: the aggregator's fetchWithRetry around the adapter operation, and   *)
(* the adapter's fetchWithRetry around the network call.                   *)
(***************************************************************************)
\* What one fetch() of the adapter can meet: the promise rejects, a non-2xx status,
\* a body that is not JSON, a body without a required field, a complete body.
Responses ==
    {[kind |-> "network", ok |-> FALSE, status |-> 0, statusText |-> ""],
     [kind |-> "status", ok |-> FALSE, status |-> 500, statusText |-> "Internal Server Error"],
     [kind |-> "status", ok |-> FALSE, status |-> 404, statusText |-> "Not Found"],
     [kind |-> "malformed", ok |-> TRUE, status |-> 200, statusText |-> "OK"],
     [kind |-> "incomplete", ok |-> TRUE, status |-> 200, statusText |-> "OK"],
     [kind |-> "complete", ok |-> TRUE, status |-> 200, statusText |-> "OK"]}

\* The name makeRequest gives to validateResponse and fetchWithRetry.
AdapterName == "CoinGecko"

\* `CoinGecko API error: ${response.statusText}`
ApiErrorMessage(statusText) ==
    CASE statusText = "Internal Server Error" -> "CoinGecko API error: Internal Server Error"
      [] statusText = "Not Found" -> "CoinGecko API error: Not Found"
      [] OTHER -> "CoinGecko API error: "

\* The fetcher makeRequest hands to fetchWithRetry, on one response: the data it
\* returns or the error it throws.
Fetcher(response) ==
    IF response.kind = "network"
    THEN [threw |-> TRUE, error |-> [tag |-> "TypeError", message |-> "fetch failed"]]
    ELSE IF ~response.ok
    THEN [threw |-> TRUE, error |-> OpError(ApiErrorMessage(response.statusText))]
    ELSE IF response.kind = "malformed"
    THEN [threw |-> TRUE, error |-> [tag |-> "SyntaxError", message |-> "Unexpected token < in JSON"]]
    ELSE IF response.kind = "incomplete"
    THEN [threw |-> TRUE, error |-> ProviderError("Missing required fields from CoinGecko: usd",
                                                  AdapterName, NoStatus)]
    ELSE [threw |-> FALSE, error |-> NoError]

\* `{ maxRetries: 3, baseDelay: 1000, maxDelay: 10000 }`, delays in seconds.
AdapterRetryConfig == [maxRetries |-> 3, baseDelay |-> 1, maxDelay |-> 10]

\* A fetchWithRetry call entering its loop.
RetryStart(providerName) ==
    LoopHead([RetryIdle EXCEPT !.config = AdapterRetryConfig, !.providerName = providerName], 0, 0)

NoResponse == [kind |-> "none", ok |-> FALSE, status |-> 0, statusText |-> ""]

AdapterIdle ==
    [pc |-> "idle", outer |-> RetryIdle, inner |-> RetryIdle, invocations |-> 0, attempts |-> 0,
     lastResponse |-> NoResponse, ret |-> Undefined]

\* providerInstance[method](symbol) is invoked by the aggregator's loop: makeRequest
\* starts its own fetchWithRetry.
InvokeAdapter(a, outer) ==
    [a EXCEPT !.outer = outer, !.inner = RetryStart(AdapterName), !.invocations = @ + 1]

\* The aggregator's loop after the adapter operation has rejected with error: it
\* waits, or it has thrown and fetchFromProvider's catch returns null.
AdapterRejected(a, inner) ==
    LET outer == Catch(a.outer, inner.outcome.message)
    IN  IF outer.pc = "thrown"
        THEN [a EXCEPT !.pc = "done", !.inner = inner, !.outer = outer, !.ret = Null]
        ELSE [a EXCEPT !.inner = inner, !.outer = outer]

(***************************************************************************)
(* The outbound calls to one provider: fetchFromProvider waits on the      *)
(* aggregator's RateLimiter (config.rateLimit = MinInterval), then calls   *)
(* the adapter inside fetchWithRetry; the adapter's makeRequest waits on   *)
(* its own RateLimiter and makes the network call inside its own           *)
(* fetchWithRetry.  One time unit is 1000 ms.                              *)
(***************************************************************************)
\* `this.rateLimiter = new RateLimiter(1000)`
OwnMinInterval == 1

\* The synchronous part of acquire() at time t, for call id, on the limiter record L.
LimAcquire(L, minInterval, id, t) ==
    LET queue == ChainThen(L.queue, [id |-> id, timeToWait |-> TimeToWait(L.lastRequest, minInterval, t)])
    IN  [L EXCEPT !.queue = queue,
                  !.timer = IF L.queue = <<>> THEN NextTimer(queue, t) ELSE @]

\* The head call of limiter L resumes after its await at time t.
LimReturn(L, t) ==
    [lastRequest |-> t, queue |-> Tail(L.queue), timer |-> NextTimer(Tail(L.queue), t)]

\* fetchFromProvider: `{ maxRetries: 3, baseDelay: 1000, maxDelay: 10000 }`
AggRetryConfig == [maxRetries |-> 3, baseDelay |-> 1, maxDelay |-> 10]

\* The log of network calls keeps the times of the latest two.
LogCall(net, t) == IF Len(net) < 2 THEN Append(net, t) ELSE <<net[2], t>>

NewCall == [pc |-> "aggLimiter", inner |-> 0, outer |-> 0, wake |-> 0]

OutIdle == [agg |-> NewLimiter, own |-> NewLimiter, ops |-> <<>>, net |-> <<>>]

\* The network call of op i has failed at time t: the catch block of the adapter's
\* fetchWithRetry, and when that loop is exhausted, the catch block of the aggregator's.
ResponseFailed(op, t) ==
    IF WaitsAfter(op.inner, AdapterRetryConfig.maxRetries)
    THEN [op EXCEPT !.pc = "innerBackoff", !.wake = t + BackoffDelay(AdapterRetryConfig, op.inner)]
    ELSE IF WaitsAfter(op.outer, AggRetryConfig.maxRetries)
    THEN [op EXCEPT !.pc = "outerBackoff", !.wake = t + BackoffDelay(AggRetryConfig, op.outer)]
    ELSE [op EXCEPT !.pc = "done"]

(***************************************************************************)
(* DataMonitor and withMonitoring (data-monitor.ts).  averageLatency is    *)
(* the running mean of the latencies recorded: the model keeps their sum,  *)
(* latencySum, and averageLatency is latencySum / requestCount.            *)
(***************************************************************************)
MonitorProviders == {"test-provider", "coingecko"}
\* The values an operation resolves with.
OpResults == {[tag |-> "string", value |-> "success"], [tag |-> "string", value |-> "other"]}

\* The ProviderMetrics getOrCreateProviderMetrics creates.
NewProviderMetrics(p) ==
    [key |-> p, requestCount |-> 0, successCount |-> 0, failureCount |-> 0,
     latencySum |-> 0, lastError |-> Undefined]

GetOrCreateProviderMetrics(m, p) ==
    IF MapHas(m, p) THEN m ELSE MapSet(m, p, NewProviderMetrics(p))

\* recordRequest(provider, startTime) at time t
RecordRequest(m, p, startTime, t) ==
    LET m1 == GetOrCreateProviderMetrics(m, p)
    IN  MapSet(m1, p, [MapGet(m1, p) EXCEPT !.requestCount = @ + 1,
                                            !.latencySum = @ + (t - startTime)])

\* recordSuccess(provider)
RecordSuccess(m, p) ==
    LET m1 == GetOrCreateProviderMetrics(m, p)
    IN  MapSet(m1, p, [MapGet(m1, p) EXCEPT !.successCount = @ + 1])

\* A recordFailure that keeps the error and leaves the counter alone.
RecordFailure_NoCount(m, p, error) ==
    LET m1 == GetOrCreateProviderMetrics(m, p)
    IN  MapSet(m1, p, [MapGet(m1, p) EXCEPT !.lastError = error])

\* recordFailure(provider, error)
RecordFailure(m, p, error) ==
    LET m1 == GetOrCreateProviderMetrics(m, p)
    IN  MapSet(m1, p, [MapGet(m1, p) EXCEPT !.failureCount = @ + 1, !.lastError = error])

\* The states of a promise.
Pending == [kind |-> "pending", value |-> Undefined]
Fulfilled(v) == [kind |-> "fulfilled", value |-> v]
Rejected(e) == [kind |-> "rejected", value |-> e]

\* withMonitoring's `.then(result => ...)` callback at time t: the metrics after it and
\* the state of the promise it settles.
MonitoringThen(m, p, startTime, t, result) ==
    [metrics |-> RecordSuccess(RecordRequest(m, p, startTime, t), p),
     out |-> Fulfilled(result)]

\* withMonitoring's `.catch(error => ...)` callback at time t.
MonitoringCatch(m, p, startTime, t, error) ==
    [metrics |-> RecordFailure(RecordRequest(m, p, startTime, t), p, error),
     out |-> Rejected(error)]

MonitorIdle == [metrics |-> <<>>, time |-> 0, ops |-> <<>>]

(***************************************************************************)
(* MarketService.getMarketData and its two providers (part_006).           *)
(***************************************************************************)
\* `this.providers = [new CoinGeckoProvider(...), new CookieFunProvider(...)]`
ServiceProviders == <<"CoinGecko", "Cookie.fun">>

ServiceSymbols == {"btc", "BTC", "ETH"}

\* String.prototype.toLowerCase on the symbols used.
Lower(s) ==
    CASE s = "BTC" -> "btc"
      [] s = "ETH" -> "eth"
      [] OTHER -> s

\* What fetch(...) gives: a rejection, or a response with ok, statusText and a JSON body.
\* A body is the set of its top-level keys (for a JSON array, of its elements).
HttpResponses ==
    {[kind |-> "network", ok |-> FALSE, statusText |-> "", body |-> {}]} \cup
    [kind : {"http"}, ok : BOOLEAN, statusText : {"OK", "Too Many Requests"},
     body : {{}, {"btc"}, {"BTC", "usd"}, {"eth", "ETH"}}]

\* CoinGeckoProvider.isSupported / CookieFunProvider.isSupported: neither throws.
IsSupported(provider, symbol, response) ==
    IF response.kind = "network" THEN FALSE
    ELSE IF provider = "CoinGecko" THEN Lower(symbol) \in response.body
    ELSE response.ok

\* The MarketData record a provider builds from the body of a response.
MarketDataOf(provider, symbol) ==
    [tag |-> "MarketData", from |-> provider, token |-> symbol]

\* CoinGeckoProvider.getMarketData / CookieFunProvider.getMarketData: the record it
\* resolves with, or the error it rethrows.
GetMarketData(provider, symbol, response) ==
    IF response.kind = "network"
    THEN [threw |-> TRUE, value |-> OpError("Network error")]
    ELSE IF ~response.ok
    THEN [threw |-> TRUE, value |-> OpError(<<provider, "API error", response.statusText>>)]
    ELSE IF provider = "CoinGecko" /\ symbol \notin response.body
    THEN [threw |-> TRUE, value |-> [tag |-> "TypeError", message |-> "Cannot read properties of undefined"]]
    ELSE [threw |-> FALSE, value |-> MarketDataOf(provider, symbol)]

\* A throw that ignores lastError.
ServiceThrow_Generic(lastError, symbol) == OpError(<<"No provider could fetch data for", symbol>>)

\* `throw lastError || new Error(`No provider could fetch data for ${symbol}`)`
ServiceThrow(lastError, symbol) ==
    IF lastError # NoError THEN lastError ELSE OpError(<<"No provider could fetch data for", symbol>>)

ServiceIdle ==
    [pc |-> "idle", symbol |-> "", idx |-> 0, lastError |-> NoError, outcome |-> Null, log |-> <<>>]

\* The for loop moves past provider s.idx: the next provider's isSupported is called, or
\* the loop ends and the function throws.
NextProvider(s) ==
    IF s.idx < Len(ServiceProviders)
    THEN [s EXCEPT !.pc = "isSupported", !.idx = @ + 1]
    ELSE [s EXCEPT !.pc = "thrown", !.outcome = ServiceThrow(s.lastError, s.symbol)]

(***************************************************************************)
(* validateResponse (providers/utils.ts), called by makeRequest on the     *)
(* parsed body with the operation's list of required fields.               *)
(***************************************************************************)
\* Field names and field values of the response objects tried.  A response object is a
\* function from the fields it has to their values.
Fields == {"usd", "prices"}
FieldValues == {[tag |-> "number", value |-> 0], [tag |-> "number", value |-> 50000],
                [tag |-> "boolean", value |-> FALSE], [tag |-> "string", value |-> ""],
                [tag |-> "string", value |-> "btc"]}
ResponseObjects == UNION {[present -> FieldValues] : present \in SUBSET Fields}
RequiredFieldLists == {<<>>, <<"usd">>, <<"prices">>, <<"usd", "prices">>, <<"prices", "usd">>}

\* `data[field]`: the value of the field, undefined when the object has no such field.
Prop(data, field) == IF field \in DOMAIN data THEN data[field] ELSE Undefined

\* `!v` is false: JavaScript truthiness of a primitive value.
JsTruthy(v) ==
    CASE v.tag \in {"null", "undefined"} -> FALSE
      [] v.tag = "number" -> v.value # 0
      [] v.tag = "boolean" -> v.value
      [] v.tag = "string" -> v.value # ""
      [] OTHER -> TRUE

\* validateResponse(data, requiredFields, provider): returns undefined, or throws a
\* ProviderError naming the fields its filter kept.  The message is kept as its parts.
ValidateResponse(data, requiredFields, provider) ==
    LET missingFields == SelectSeq(requiredFields, LAMBDA field : ~JsTruthy(Prop(data, field)))
    IN  IF Len(missingFields) > 0
        THEN [threw |-> TRUE,
              value |-> ProviderError([provider |-> provider, missing |-> missingFields],
                                      provider, NoStatus)]
        ELSE [threw |-> FALSE, value |-> Undefined]

ValidateIdle == [pc |-> "idle", data |-> <<>>, requiredFields |-> <<>>, outcome |-> Null]

(***************************************************************************)
(* MarketDataAggregator.fetchTokenData (market-data-aggregator.ts, the     *)
(* first class): three sub-fetches on the CoinGecko provider, each wrapped *)
(* in the class's own fetchWithRetry, awaited with Promise.allSettled.     *)
(* Records keep a representative subset of the numeric fields; Date values *)
(* are left out.                                                           *)
(***************************************************************************)
\* retryAttempts of MarketDataAggregator
RetryAttempts == 3

SubFetches == <<"market", "technical", "social">>
SubNames == {SubFetches[i] : i \in 1..Len(SubFetches)}

TokSymbols == {"btc", "ETH"}

\* The messages a failing provider call throws with.
Failures == {"Network error", "HTTP 500"}

\* String.prototype.toUpperCase on the symbols used.
Upper(s) ==
    CASE s = "btc" -> "BTC"
      [] s = "bitcoin" -> "BITCOIN"
      [] OTHER -> s

\* The records a successful CoinGeckoProvider call resolves with.
ProviderRecord(name, symbol) ==
    CASE name = "market" ->
            [symbol |-> Upper(symbol), price |-> 50000, volume24h |-> 30000, marketCap |-> 1000000]
      [] name = "technical" ->
            [symbol |-> Upper(symbol), rsi14 |-> 50, macd |-> [value |-> 0, signal |-> 0, histogram |-> 0]]
      [] name = "social" ->
            [symbol |-> Upper(symbol), twitterMentions24h |-> 1200, redditSubscribers |-> 340]

\* CoinGeckoProvider.getOnChainMetrics is async and fetchTokenData does not await it:
\* the onChain field receives the promise of the placeholder record.
OnChainPromise(symbol) ==
    [tag |-> "promise",
     resolved |-> [symbol |-> Upper(symbol), activeAddresses24h |-> 0, transactionCount24h |-> 0]]

\* createDefaultAnalysis
CreateDefaultAnalysis(symbol) ==
    [symbol |-> Upper(symbol),
     market |-> [symbol |-> Upper(symbol), price |-> 0, volume24h |-> 0, marketCap |-> 0],
     onChain |-> [symbol |-> Upper(symbol), activeAddresses24h |-> 0, transactionCount24h |-> 0],
     technical |-> [symbol |-> Upper(symbol), rsi14 |-> 0, macd |-> [value |-> 0, signal |-> 0, histogram |-> 0]],
     social |-> [symbol |-> Upper(symbol), twitterMentions24h |-> 0, redditSubscribers |-> 0],
     status |-> "success"]

\* One fetchWithRetry call of fetchTokenData: the loop index i, the last error caught.
SubIdle == [state |-> "idle", i |-> 0, lastError |-> "", value |-> Null]
SubStarted == [state |-> "attempting", i |-> 0, lastError |-> "", value |-> Null]

\* fetchWithRetry's catch block of iteration c.i, the operation having thrown msg:
\* wait and loop while i < attempts - 1, throw lastError after the last iteration.
RetryCatch(c, msg) ==
    IF c.i < RetryAttempts - 1
    THEN [c EXCEPT !.state = "waiting", !.lastError = msg]
    ELSE [c EXCEPT !.state = "rejected", !.lastError = msg]

\* The label fetchTokenData gives the error of each sub-fetch.
ErrorLabel(name) ==
    CASE name = "market" -> "Market data error"
      [] name = "technical" -> "Technical data error"
      [] name = "social" -> "Social data error"

\* An errors list pushed in the order in which the sub-fetches settled.
TokErrors_SettleOrder(sub, i) ==
    LET rejected == SelectSeq(tok.order, LAMBDA n : sub[n].state = "rejected")
    IN  [j \in 1..Len(rejected) |->
            [label |-> ErrorLabel(rejected[j]), reason |-> sub[rejected[j]].lastError]]

\* errors, as pushed in the fixed order market, technical, social.
RECURSIVE TokErrors(_, _)
TokErrors(sub, i) ==
    IF i > Len(SubFetches) THEN <<>>
    ELSE (IF sub[SubFetches[i]].state = "rejected"
          THEN <<[label |-> ErrorLabel(SubFetches[i]), reason |-> sub[SubFetches[i]].lastError]>>
          ELSE <<>>) \o TokErrors(sub, i + 1)

\* The status fetchTokenData derives: `errors.length === 0 ? 'success' : 'partial'`.
TokStatus(errors) == IF Len(errors) = 0 THEN "success" ELSE "partial"

\* The analysis fetchTokenData returns once Promise.allSettled has resolved.
FetchTokenDataResult(symbol, sub) ==
    LET default == CreateDefaultAnalysis(symbol)
        errors == TokErrors(sub, 1)
        pick(name) == IF sub[name].state = "fulfilled" THEN sub[name].value ELSE default[name]
        analysis == [default EXCEPT !.market = pick("market"),
                                    !.technical = pick("technical"),
                                    !.social = pick("social"),
                                    !.onChain = OnChainPromise(symbol),
                                    !.status = TokStatus(errors)]
    IN  IF Len(errors) > 0 THEN analysis @@ [errors |-> errors] ELSE analysis

\* order is history: the sub-fetches in the order in which their promises settled.
TokIdle ==
    [pc |-> "idle", symbol |-> "", sub |-> [n \in SubNames |-> SubIdle], ret |-> Null, order |-> <<>>]

TokInit ==
    /\ tok = TokIdle
    /\ now = 0
    /\ cache = <<>>
    /\ lastOp = NoOp
    /\ watch = NoWatch
    /\ providers = <<>>
    /\ aggCache = <<>>
    /\ fetch = <<>>
    /\ LimQuiet
    /\ retry = RetryIdle
    /\ stored = NoStore
    /\ adapter = AdapterIdle
    /\ out = OutIdle
    /\ monitor = MonitorIdle
    /\ svc = ServiceIdle
    /\ val = ValidateIdle

\* fetchTokenData(symbol) is called: the three fetchWithRetry calls start their first attempt.
TokStart(symbol) ==
    /\ tok.pc = "idle"
    /\ tok' = [pc |-> "running", symbol |-> symbol, sub |-> [n \in SubNames |-> SubStarted],
               ret |-> Null, order |-> <<>>]
    /\ UNCHANGED notTok

\* The provider call of sub-fetch n resolves.
SubSucceed(n) ==
    /\ tok.pc = "running"
    /\ tok.sub[n].state = "attempting"
    /\ tok' = [tok EXCEPT !.sub[n].state = "fulfilled",
                          !.sub[n].value = ProviderRecord(n, tok.symbol),
                          !.order = Append(@, n)]
    /\ UNCHANGED notTok

\* The provider call of sub-fetch n throws msg.
SubFail(n, msg) ==
    /\ tok.pc = "running"
    /\ tok.sub[n].state = "attempting"
    /\ tok' = [tok EXCEPT !.sub[n] = RetryCatch(@, msg),
                          !.order = IF RetryCatch(tok.sub[n], msg).state = "rejected"
                                    THEN Append(@, n) ELSE @]
    /\ UNCHANGED notTok

\* The backoff timer of sub-fetch n fires: the next loop iteration starts.
SubBackoff(n) ==
    /\ tok.pc = "running"
    /\ tok.sub[n].state = "waiting"
    /\ tok' = [tok EXCEPT !.sub[n].state = "attempting", !.sub[n].i = @ + 1]
    /\ UNCHANGED notTok

\* Promise.allSettled resolves; the results are processed and the analysis returned.
TokFinish ==
    /\ tok.pc = "running"
    /\ \A n \in SubNames : tok.sub[n].state \in {"fulfilled", "rejected"}
    /\ tok' = [tok EXCEPT !.pc = "done", !.ret = FetchTokenDataResult(tok.symbol, tok.sub)]
    /\ UNCHANGED notTok

\* The caller takes the result.
TokReturn ==
    /\ tok.pc = "done"
    /\ tok' = TokIdle
    /\ UNCHANGED notTok

TokNext ==
    \/ \E symbol \in TokSymbols : TokStart(symbol)
    \/ \E n \in SubNames : SubSucceed(n)
    \/ \E n \in SubNames, msg \in Failures : SubFail(n, msg)
    \/ \E n \in SubNames : SubBackoff(n)
    \/ TokFinish
    \/ TokReturn

SpecToken == TokInit /\ [][TokNext]_vars

(***************************************************************************)
(* EnhancedMarketDataAggregator (market-data-aggregator.ts, the second     *)
(* class): aggregateData checks the cache, fans the method out to every    *)
(* configured provider through fetchFromProvider (rate limiter, then       *)
(* fetchWithRetry of provider-utils), awaits Promise.all, merges, caches.  *)
(***************************************************************************)
\* maxRetries of the RetryConfig fetchFromProvider passes to fetchWithRetry
MaxRetries == 3

\* The providers the constructor can register, in the order it registers them.
AllProviders == <<"coingecko", "cookiefun">>
ProviderNames == {AllProviders[i] : i \in 1..Len(AllProviders)}

\* The provider Maps the constructor builds from config.providers.
ProviderConfigs ==
    {SelectSeq(AllProviders, LAMBDA p : p \in on) : on \in SUBSET ProviderNames}

Fetches == {"f1"}
AggSymbols == {"BTC", "btc"}
\* The operation the fetches call; the other three differ from it in their name and
\* merge function only.
AggMethods == {"getMarketData"}

\* cacheKey = `${symbol}-${method}`
CacheKey(symbol, method) ==
    CASE symbol = "BTC" /\ method = "getMarketData" -> "BTC-getMarketData"
      [] symbol = "BTC" /\ method = "getSocialMetrics" -> "BTC-getSocialMetrics"
      [] symbol = "btc" /\ method = "getMarketData" -> "btc-getMarketData"
      [] symbol = "btc" /\ method = "getSocialMetrics" -> "btc-getSocialMetrics"

\* The record providerInstance[method](symbol) resolves with.
ProviderValue(provider, method, symbol) ==
    [tag |-> "object", source |-> provider, method |-> method, symbol |-> Upper(symbol),
     price |-> IF method = "getMarketData" THEN 50000 ELSE 0]

\* The ProviderError fetchWithRetry throws after its last attempt.
RetryExhausted(providerName, lastMessage) ==
    [tag |-> "ProviderError", provider |-> providerName, attempts |-> MaxRetries, cause |-> lastMessage]

\* A fetchFromProvider catch block that lets the error through.
FetchFromProviderCatch_Rethrow(c, error) ==
    [c EXCEPT !.state = "rejected", !.value = error]

\* fetchFromProvider's catch block: the error is logged and null is returned.
FetchFromProviderCatch(c, error) ==
    [c EXCEPT !.state = "fulfilled", !.value = Null]

\* A catch block that never gives up: it waits and loops after every failure.
ProviderCallFailed_NeverGivesUp(c, provider, msg) ==
    [c EXCEPT !.state = "waiting", !.lastError = msg]

\* fetchWithRetry's catch block of iteration c.attempt inside fetchFromProvider, the
\* provider call having thrown msg: wait and loop while attempt < maxRetries - 1;
\* after the last iteration the ProviderError is thrown into fetchFromProvider's catch.
ProviderCallFailed(c, provider, msg) ==
    IF c.attempt < MaxRetries - 1
    THEN [c EXCEPT !.state = "waiting", !.lastError = msg]
    ELSE FetchFromProviderCatch([c EXCEPT !.lastError = msg], RetryExhausted(provider, msg))

\* The four merge strategies: their bodies hold comments only, so each returns undefined.
MergeMarketData(results) == Undefined
MergeOnChainMetrics(results) == Undefined
MergeTechnicalIndicators(results) == Undefined
MergeSocialMetrics(results) == Undefined

\* The mergeStrategy each public method binds.
MergeStrategy(method, results) ==
    CASE method = "getMarketData" -> MergeMarketData(results)
      [] method = "getOnChainMetrics" -> MergeOnChainMetrics(results)
      [] method = "getTechnicalIndicators" -> MergeTechnicalIndicators(results)
      [] method = "getSocialMetrics" -> MergeSocialMetrics(results)

CallNone == [state |-> "none", attempt |-> 0, lastError |-> "", value |-> Null]
CallAcquiring == [state |-> "acquiring", attempt |-> 0, lastError |-> "", value |-> Null]

FetchIdle ==
    [pc |-> "idle", symbol |-> "", method |-> "", hadLive |-> FALSE, fromCache |-> FALSE,
     thrown |-> FALSE, calls |-> [p \in ProviderNames |-> CallNone],
     mergeInput |-> <<>>, ret |-> Undefined, repeatOf |-> NoStore]

Configured == {providers[i] : i \in 1..Len(providers)}

\* A fan-out that starts the call of the first provider only.
FanOut_FirstOnly(provs) ==
    [p \in ProviderNames |-> IF provs # <<>> /\ provs[1] = p THEN CallAcquiring ELSE CallNone]

\* `Array.from(this.providers.keys()).map(provider => this.fetchFromProvider(...))`:
\* every call is started, each running up to its first await, before Promise.all.
FanOut(provs) ==
    [p \in ProviderNames |->
        IF \E i \in 1..Len(provs) : provs[i] = p THEN CallAcquiring ELSE CallNone]

AggInit ==
    /\ now = 0
    /\ providers \in ProviderConfigs
    /\ aggCache = <<>>
    /\ fetch = [f \in Fetches |-> FetchIdle]
    /\ cache = <<>>
    /\ lastOp = NoOp
    /\ watch = NoWatch
    /\ tok = TokIdle
    /\ LimQuiet
    /\ retry = RetryIdle
    /\ stored = NoStore
    /\ adapter = AdapterIdle
    /\ out = OutIdle
    /\ monitor = MonitorIdle
    /\ svc = ServiceIdle
    /\ val = ValidateIdle

\* aggregateData(symbol, method) is called: the cache is read; on a truthy cached value it
\* returns it, otherwise fetchFromProvider is called for every provider, each call running
\* up to its rate limiter's acquire(), and Promise.all is awaited.
AggStart(f, symbol, method) ==
    LET key == CacheKey(symbol, method)
        r == CacheGet(aggCache, key, now)
        live == MapHas(aggCache, key) /\ now < MapGet(aggCache, key).timestamp + CacheTTL
        repeatOf == IF stored.on /\ now < stored.at + CacheTTL THEN stored ELSE NoStore
    IN  /\ fetch[f].pc = "idle"
        /\ aggCache' = r.map
        /\ fetch' = [fetch EXCEPT ![f] =
                IF Truthy(r.result)
                THEN [FetchIdle EXCEPT !.pc = "done", !.symbol = symbol, !.method = method,
                                       !.hadLive = live, !.repeatOf = repeatOf,
                                       !.fromCache = TRUE, !.ret = r.result]
                ELSE [FetchIdle EXCEPT !.pc = "awaiting", !.symbol = symbol, !.method = method,
                                       !.hadLive = live, !.repeatOf = repeatOf,
                                       !.calls = FanOut(providers)]]
        /\ UNCHANGED <<now, providers>>
        /\ UNCHANGED <<stored, notAgg>>

\* The rate limiter lets the call of provider p through: fetchWithRetry makes its first attempt.
Acquired(f, p) ==
    /\ fetch[f].calls[p].state = "acquiring"
    /\ fetch' = [fetch EXCEPT ![f].calls[p].state = "attempting"]
    /\ UNCHANGED <<now, providers, aggCache>>
    /\ UNCHANGED <<stored, notAgg>>

\* The provider call resolves.
CallSucceed(f, p) ==
    /\ fetch[f].calls[p].state = "attempting"
    /\ fetch' = [fetch EXCEPT ![f].calls[p].state = "fulfilled",
                              ![f].calls[p].value = ProviderValue(p, fetch[f].method, fetch[f].symbol)]
    /\ UNCHANGED <<now, providers, aggCache>>
    /\ UNCHANGED <<stored, notAgg>>

\* The provider call throws msg.
CallFail(f, p, msg) ==
    /\ fetch[f].calls[p].state = "attempting"
    /\ fetch' = [fetch EXCEPT ![f].calls[p] = ProviderCallFailed(@, p, msg)]
    /\ UNCHANGED <<now, providers, aggCache>>
    /\ UNCHANGED <<stored, notAgg>>

\* The backoff timer fires: the next attempt starts.
CallBackoff(f, p) ==
    /\ fetch[f].calls[p].state = "waiting"
    /\ fetch' = [fetch EXCEPT ![f].calls[p].state = "attempting", ![f].calls[p].attempt = @ + 1]
    /\ UNCHANGED <<now, providers, aggCache>>
    /\ UNCHANGED <<stored, notAgg>>

\* Promise.all settles: it rejects as soon as one call has rejected, and resolves once all
\* have fulfilled; then the results are merged, the merged value is cached and returned.
AwaitAll(f) ==
    LET rejected == {p \in Configured : fetch[f].calls[p].state = "rejected"}
        unsettled == {p \in Configured : fetch[f].calls[p].state \notin {"fulfilled", "rejected"}}
        results == [i \in 1..Len(providers) |-> fetch[f].calls[providers[i]].value]
        merged == MergeStrategy(fetch[f].method, results)
    IN  /\ fetch[f].pc = "awaiting"
        /\ IF rejected # {} THEN TRUE ELSE unsettled = {}
        /\ IF rejected # {}
           THEN /\ fetch' = [fetch EXCEPT ![f].pc = "done", ![f].thrown = TRUE]
                /\ UNCHANGED <<aggCache, stored>>
           ELSE /\ fetch' = [fetch EXCEPT ![f].pc = "done", ![f].mergeInput = results, ![f].ret = merged]
                /\ aggCache' = CacheSet(aggCache, CacheKey(fetch[f].symbol, fetch[f].method), merged,
                                        now, CacheTTL, CacheMaxSize)
                /\ stored' = [on |-> TRUE, symbol |-> fetch[f].symbol, method |-> fetch[f].method,
                              key |-> CacheKey(fetch[f].symbol, fetch[f].method), at |-> now,
                              allFailed |-> Configured # {} /\
                                    \A p \in Configured : fetch[f].calls[p].value = Null]
        /\ UNCHANGED <<now, providers>>
        /\ UNCHANGED notAgg

\* The caller takes the result.
AggReturn(f) ==
    /\ fetch[f].pc = "done"
    /\ \A p \in Configured : fetch[f].calls[p].state \in {"none", "fulfilled", "rejected"}
    /\ fetch' = [fetch EXCEPT ![f] = FetchIdle]
    /\ UNCHANGED <<now, providers, aggCache>>
    /\ UNCHANGED <<stored, notAgg>>

AggTick ==
    /\ now < MaxTime
    /\ now' = now + 1
    /\ UNCHANGED <<providers, aggCache, fetch>>
    /\ UNCHANGED <<stored, notAgg>>

\* The cleanup timer of the aggregator's CacheManager fires.
AggSweep ==
    /\ aggCache' = CacheCleanup(aggCache, now)
    /\ UNCHANGED <<now, providers, fetch>>
    /\ UNCHANGED <<stored, notAgg>>

AggNext ==
    \/ \E f \in Fetches, symbol \in AggSymbols, method \in AggMethods : AggStart(f, symbol, method)
    \/ \E f \in Fetches, p \in ProviderNames : Acquired(f, p)
    \/ \E f \in Fetches, p \in ProviderNames : CallSucceed(f, p)
    \/ \E f \in Fetches, p \in ProviderNames, msg \in Failures : CallFail(f, p, msg)
    \/ \E f \in Fetches, p \in ProviderNames : CallBackoff(f, p)
    \/ \E f \in Fetches : AwaitAll(f)
    \/ \E f \in Fetches : AggReturn(f)
    \/ AggTick
    \/ AggSweep

SpecAgg == AggInit /\ [][AggNext]_vars

\* The event loop runs every ready continuation and timer, and the network settles
\* every request to cookiefun; a request to coingecko may stay unanswered for ever.
SpecAggFair ==
    /\ AggInit
    /\ [][AggNext]_vars
    /\ \A f \in Fetches :
            /\ WF_vars(AwaitAll(f))
            /\ \A p \in ProviderNames : WF_vars(Acquired(f, p)) /\ WF_vars(CallBackoff(f, p))
            /\ WF_vars(CallSucceed(f, "cookiefun") \/ \E msg \in Failures : CallFail(f, "cookiefun", msg))

\* The steps of the aggregator's fetches alone.  The clock and the cleanup timer of the
\* cache decide only which entries a get() still finds; the waits of a fetch are the
\* steps Acquired and CallBackoff.
AggLiveNext ==
    \/ \E f \in Fetches, symbol \in AggSymbols, method \in AggMethods : AggStart(f, symbol, method)
    \/ \E f \in Fetches, p \in ProviderNames : Acquired(f, p)
    \/ \E f \in Fetches, p \in ProviderNames : CallSucceed(f, p)
    \/ \E f \in Fetches, p \in ProviderNames, msg \in Failures : CallFail(f, p, msg)
    \/ \E f \in Fetches, p \in ProviderNames : CallBackoff(f, p)
    \/ \E f \in Fetches : AwaitAll(f)
    \/ \E f \in Fetches : AggReturn(f)

\* The event loop runs every ready continuation and timer, and the network settles
\* every request, to whichever provider, with a response or a failure.
SpecAggLive ==
    /\ AggInit
    /\ [][AggLiveNext]_vars
    /\ \A f \in Fetches :
            /\ WF_vars(AwaitAll(f))
            /\ \A p \in ProviderNames :
                    /\ WF_vars(Acquired(f, p))
                    /\ WF_vars(CallBackoff(f, p))
                    /\ WF_vars(CallSucceed(f, p) \/ \E msg \in Failures : CallFail(f, p, msg))

(***************************************************************************)
(* The aggregator with two aggregateData calls that may overlap: a second  *)
(* call can start at any await of the first.  The providers are healthy:   *)
(* every provider call resolves at its first attempt.                      *)
(***************************************************************************)
OverlapFetches == {"f1", "f2"}

OverlapInit ==
    /\ now = 0
    /\ providers \in ProviderConfigs
    /\ aggCache = <<>>
    /\ fetch = [f \in OverlapFetches |-> FetchIdle]
    /\ cache = <<>>
    /\ lastOp = NoOp
    /\ watch = NoWatch
    /\ tok = TokIdle
    /\ LimQuiet
    /\ retry = RetryIdle
    /\ stored = NoStore
    /\ adapter = AdapterIdle
    /\ out = OutIdle
    /\ monitor = MonitorIdle
    /\ svc = ServiceIdle
    /\ val = ValidateIdle

OverlapNext ==
    \/ \E f \in OverlapFetches, symbol \in AggSymbols, method \in AggMethods : AggStart(f, symbol, method)
    \/ \E f \in OverlapFetches, p \in ProviderNames : Acquired(f, p)
    \/ \E f \in OverlapFetches, p \in ProviderNames : CallSucceed(f, p)
    \/ \E f \in OverlapFetches : AwaitAll(f)
    \/ \E f \in OverlapFetches : AggReturn(f)
    \/ AggTick
    \/ AggSweep

SpecOverlap == OverlapInit /\ [][OverlapNext]_vars

(***************************************************************************)
(* The CacheManager under an arbitrary client: set, get, the cleanup timer *)
(* and the passing of time.                                                *)
(***************************************************************************)
CacheInit ==
    /\ now = 0
    /\ cache = <<>>
    /\ lastOp = NoOp
    /\ watch = NoWatch
    /\ tok = TokIdle
    /\ providers = <<>>
    /\ aggCache = <<>>
    /\ fetch = <<>>
    /\ LimQuiet
    /\ retry = RetryIdle
    /\ stored = NoStore
    /\ adapter = AdapterIdle
    /\ out = OutIdle
    /\ monitor = MonitorIdle
    /\ svc = ServiceIdle
    /\ val = ValidateIdle

Tick ==
    /\ now < MaxTime
    /\ now' = now + 1
    /\ lastOp' = NoOp
    /\ UNCHANGED <<cache, watch>>
    /\ UNCHANGED notCache

\* cacheManager.set(k, data); w says whether the history variable picks this call.
\* The watched entry after set(k, data) took the map from m to m2: m1 is the map
\* after the insertion and before the eviction.
WatchAfterSet(k, data, w, m1, m2) ==
    IF w THEN [on |-> TRUE, key |-> k, at |-> now, data |-> data, evicted |-> ~MapHas(m2, k)]
    ELSE IF watch.on /\ watch.key = k THEN NoWatch
    ELSE IF watch.on /\ MapHas(m1, watch.key) /\ ~MapHas(m2, watch.key)
         THEN [watch EXCEPT !.evicted = TRUE]
         ELSE watch

Set(k, data, w) ==
    LET m1 == MapSet(cache, k, NewEntry(k, data, now, CacheTTL))
        m2 == CacheSet(cache, k, data, now, CacheTTL, CacheMaxSize)
    IN  /\ cache' = m2
        /\ lastOp' = [op |-> "set", key |-> k, found |-> FALSE, result |-> Null]
        /\ watch' = WatchAfterSet(k, data, w, m1, m2)
        /\ UNCHANGED now
        /\ UNCHANGED notCache

\* cacheManager.get(k)
Get(k) ==
    LET r == CacheGet(cache, k, now)
    IN  /\ cache' = r.map
        /\ lastOp' = [op |-> "get", key |-> k, found |-> MapHas(cache, k), result |-> r.result]
        /\ UNCHANGED <<now, watch>>
        /\ UNCHANGED notCache

\* The cleanup timer fires.
Sweep ==
    /\ cache' = CacheCleanup(cache, now)
    /\ lastOp' = NoOp
    /\ UNCHANGED <<now, watch>>
    /\ UNCHANGED notCache

CacheNext ==
    \/ Tick
    \/ \E k \in Keys, data \in Values, w \in BOOLEAN : Set(k, data, w)
    \/ \E k \in Keys : Get(k)
    \/ Sweep

SpecCache == CacheInit /\ [][CacheNext]_vars

(***************************************************************************)
(* The same client on a CacheManager configured with a smaller maxSize.    *)
(***************************************************************************)
SmallMaxSize == CacheMaxSize - 1

\* cacheManager.set(k, data) on the cache configured with SmallMaxSize.
SetSmall(k, data, w) ==
    LET m1 == MapSet(cache, k, NewEntry(k, data, now, CacheTTL))
        m2 == CacheSet(cache, k, data, now, CacheTTL, SmallMaxSize)
    IN  /\ cache' = m2
        /\ lastOp' = [op |-> "set", key |-> k, found |-> FALSE, result |-> Null]
        /\ watch' = WatchAfterSet(k, data, w, m1, m2)
        /\ UNCHANGED now
        /\ UNCHANGED notCache

SmallCacheNext ==
    \/ Tick
    \/ \E k \in Keys, data \in Values, w \in BOOLEAN : SetSmall(k, data, w)
    \/ \E k \in Keys : Get(k)
    \/ Sweep

SpecSmallCache == CacheInit /\ [][SmallCacheNext]_vars

(***************************************************************************)
(* The CacheManager with no reader: set calls up to MaxTime, the cleanup   *)
(* timer, and time passing until the last entry has expired.               *)
(***************************************************************************)
\* An entry is still unexpired.
SomeUnexpired == \E i \in 1..Len(cache) : ~(now > cache[i].expiresAt)

\* Time passes beyond MaxTime, as long as an entry has yet to expire.
LateTick ==
    /\ now >= MaxTime
    /\ SomeUnexpired
    /\ now' = now + 1
    /\ lastOp' = NoOp
    /\ UNCHANGED <<cache, watch>>
    /\ UNCHANGED notCache

\* cacheManager.set(k, data), called no later than MaxTime.
EarlySet(k, data, w) ==
    /\ now <= MaxTime
    /\ Set(k, data, w)

SweepNext ==
    \/ Tick
    \/ LateTick
    \/ \E k \in Keys, data \in Values, w \in BOOLEAN : EarlySet(k, data, w)
    \/ Sweep

\* setInterval keeps firing the cleanup callback, and time passes.
SpecSweepFair ==
    /\ CacheInit
    /\ [][SweepNext]_vars
    /\ WF_vars(Sweep)
    /\ WF_vars(Tick)
    /\ WF_vars(LateTick)

(***************************************************************************)
(* RateLimiter instances under arbitrary callers: acquire() calls at any   *)
(* time on either limiter, timers firing at or after their due time, and   *)
(* the passing of time.                                                    *)
(***************************************************************************)
LimInit ==
    /\ LimQuiet
    /\ retry = RetryIdle
    /\ stored = NoStore
    /\ adapter = AdapterIdle
    /\ out = OutIdle
    /\ monitor = MonitorIdle
    /\ svc = ServiceIdle
    /\ val = ValidateIdle
    /\ now = 0
    /\ cache = <<>>
    /\ lastOp = NoOp
    /\ watch = NoWatch
    /\ tok = TokIdle
    /\ providers = <<>>
    /\ aggCache = <<>>
    /\ fetch = <<>>

\* limiter.acquire() is called: lines 91-97 run synchronously; on an idle limiter the
\* chain is the resolved promise, so the callback runs at once and starts the timer.
Acquire(l) ==
    LET L == limiters[l]
        timeToWait == TimeToWait(L.lastRequest, MinInterval, clock)
        id == Len(calls) + 1
        idle == L.queue = <<>>
        queue == ChainThen(L.queue, [id |-> id, timeToWait |-> timeToWait])
    IN  /\ Len(calls) < MaxCalls
        /\ limiters' = [limiters EXCEPT ![l] =
                [L EXCEPT !.queue = queue,
                          !.timer = IF idle THEN NextTimer(queue, clock) ELSE @]]
        /\ calls' = Append(calls, [limiter |-> l, at |-> clock, sequential |-> idle])
        /\ UNCHANGED <<clock, returns>>
        /\ UNCHANGED notLim

\* The running timer of limiter l fires: the call at the head of the chain resumes
\* after its await, sets lastRequest and returns; the callback of the next call runs.
TimerFire(l) ==
    LET L == limiters[l]
    IN  /\ L.queue # <<>>
        /\ TimerDue(L.timer, clock)
        /\ limiters' = [limiters EXCEPT ![l] =
                [lastRequest |-> clock,
                 queue |-> Tail(L.queue),
                 timer |-> NextTimer(Tail(L.queue), clock)]]
        /\ returns' = Append(returns, [id |-> Head(L.queue).id, limiter |-> l, at |-> clock])
        /\ UNCHANGED <<clock, calls>>
        /\ UNCHANGED notLim

\* A timer is running and not due yet.
TimerPending == \E l \in Limiters : limiters[l].timer.set /\ limiters[l].timer.at > clock

\* Time passes; past MaxClock only as far as the running timers need.
ClockTick ==
    /\ (clock < MaxClock) \/ TimerPending
    /\ clock' = clock + 1
    /\ UNCHANGED <<limiters, calls, returns>>
    /\ UNCHANGED notLim

LimNext ==
    \/ \E l \in Limiters : Acquire(l)
    \/ \E l \in Limiters : TimerFire(l)
    \/ ClockTick

SpecLimiter == LimInit /\ [][LimNext]_vars

\* Timers fire and time passes: the event loop runs every due timer.
SpecLimiterFair ==
    /\ LimInit
    /\ [][LimNext]_vars
    /\ \A l \in Limiters : WF_vars(TimerFire(l))
    /\ WF_vars(ClockTick)

(***************************************************************************)
(* One fetchWithRetry call with an arbitrary configuration and an          *)
(* operation that fails or succeeds arbitrarily; an invocation takes no    *)
(* time or one time unit, a backoff timer fires when it is due.            *)
(***************************************************************************)
RetryInit ==
    /\ retry = RetryIdle
    /\ stored = NoStore
    /\ adapter = AdapterIdle
    /\ out = OutIdle
    /\ monitor = MonitorIdle
    /\ svc = ServiceIdle
    /\ val = ValidateIdle
    /\ LimQuiet
    /\ now = 0
    /\ cache = <<>>
    /\ lastOp = NoOp
    /\ watch = NoWatch
    /\ tok = TokIdle
    /\ providers = <<>>
    /\ aggCache = <<>>
    /\ fetch = <<>>

\* fetchWithRetry(fetcher, config, providerName) is called.
RetryCall(impl, config, providerName) ==
    /\ retry.pc = "idle"
    /\ retry' = LoopHead([retry EXCEPT !.impl = impl, !.config = config,
                                       !.providerName = providerName], 0, retry.time)
    /\ UNCHANGED notRetry

\* `return await fetcher()` with the operation resolving to v.
OpSucceed(v) ==
    /\ retry.pc = "attempting"
    /\ retry' = [retry EXCEPT !.pc = "returned", !.outcome = v,
                              !.log = Append(@, [ev |-> "ok", at |-> retry.time, msg |-> "", delay |-> 0, val |-> v])]
    /\ UNCHANGED notRetry

\* The operation rejects with an Error of message msg.
OpFail(msg) ==
    /\ retry.pc = "attempting"
    /\ retry' = Catch(retry, msg)
    /\ UNCHANGED notRetry

\* The backoff timer fires: the loop goes on to its next iteration.
RetryWake ==
    /\ retry.pc = "waiting"
    /\ retry.time >= retry.wakeAt
    /\ retry' = LoopHead(retry, retry.attempt + 1, retry.time)
    /\ UNCHANGED notRetry

\* Time passes while the operation runs (at most one unit) or the timer is pending.
RetryTick ==
    /\ IF retry.pc = "attempting" THEN retry.log[Len(retry.log)].at = retry.time
       ELSE retry.pc = "waiting" /\ retry.time < retry.wakeAt
    /\ retry' = [retry EXCEPT !.time = @ + 1]
    /\ UNCHANGED notRetry

RetryNext ==
    \/ \E impl \in RetryImpls, config \in RetryConfigs, providerName \in Limiters :
            RetryCall(impl, config, providerName)
    \/ \E v \in Values : OpSucceed(v)
    \/ \E msg \in OpErrors : OpFail(msg)
    \/ RetryWake
    \/ RetryTick

SpecRetry == RetryInit /\ [][RetryNext]_vars

(***************************************************************************)
(* One fetchFromProvider call on the CoinGecko adapter, the network        *)
(* answering each attempt arbitrarily.                                     *)
(***************************************************************************)
AdapterInit ==
    /\ adapter = AdapterIdle
    /\ out = OutIdle
    /\ monitor = MonitorIdle
    /\ svc = ServiceIdle
    /\ val = ValidateIdle
    /\ retry = RetryIdle
    /\ stored = NoStore
    /\ LimQuiet
    /\ now = 0
    /\ cache = <<>>
    /\ lastOp = NoOp
    /\ watch = NoWatch
    /\ tok = TokIdle
    /\ providers = <<>>
    /\ aggCache = <<>>
    /\ fetch = <<>>

\* fetchFromProvider('coingecko', method, symbol): past the rate limiter, fetchWithRetry
\* invokes the adapter operation for the first time.
AdapterFetch ==
    /\ adapter.pc = "idle"
    /\ adapter' = InvokeAdapter([AdapterIdle EXCEPT !.pc = "running"], RetryStart("coingecko"))
    /\ UNCHANGED notAdapter

\* The fetch() of the current attempt of makeRequest settles with a response.
NetResponse(response) ==
    LET f == Fetcher(response)
        a == [adapter EXCEPT !.attempts = @ + 1, !.lastResponse = response]
        inner == Catch(adapter.inner, f.error.message)
    IN  /\ adapter.pc = "running"
        /\ adapter.inner.pc = "attempting"
        /\ adapter' =
              IF ~f.threw
              THEN [a EXCEPT !.pc = "done", !.inner.pc = "returned", !.outer.pc = "returned",
                             !.ret = [tag |-> "object", source |-> "coingecko"]]
              ELSE IF inner.pc = "thrown" THEN AdapterRejected(a, inner)
              ELSE [a EXCEPT !.inner = inner]
        /\ UNCHANGED notAdapter

\* The backoff timer of makeRequest's fetchWithRetry fires.
InnerWake ==
    /\ adapter.pc = "running"
    /\ adapter.inner.pc = "waiting"
    /\ adapter' = [adapter EXCEPT !.inner = LoopHead(@, @.attempt + 1, 0)]
    /\ UNCHANGED notAdapter

\* The backoff timer of the aggregator's fetchWithRetry fires: the adapter operation
\* is invoked again.
OuterWake ==
    /\ adapter.pc = "running"
    /\ adapter.outer.pc = "waiting"
    /\ adapter' = InvokeAdapter(adapter, LoopHead(adapter.outer, adapter.outer.attempt + 1, 0))
    /\ UNCHANGED notAdapter

\* fetchFromProvider has returned; the next call may be made.
AdapterReturn ==
    /\ adapter.pc = "done"
    /\ adapter' = AdapterIdle
    /\ UNCHANGED notAdapter

AdapterNext ==
    \/ AdapterFetch
    \/ \E response \in Responses : NetResponse(response)
    \/ InnerWake
    \/ OuterWake
    \/ AdapterReturn

SpecAdapter == AdapterInit /\ [][AdapterNext]_vars

(***************************************************************************)
(* Specification of the outbound calls to one provider.                    *)
(***************************************************************************)
notOut == <<now, cache, lastOp, watch, tok, providers, aggCache, fetch, limiters, calls, returns, retry, stored, adapter, monitor, svc, val>>

OutInit ==
    /\ LimQuiet
    /\ retry = RetryIdle
    /\ stored = NoStore
    /\ adapter = AdapterIdle
    /\ out = OutIdle
    /\ monitor = MonitorIdle
    /\ svc = ServiceIdle
    /\ val = ValidateIdle
    /\ now = 0
    /\ cache = <<>>
    /\ lastOp = NoOp
    /\ watch = NoWatch
    /\ tok = TokIdle
    /\ providers = <<>>
    /\ aggCache = <<>>
    /\ fetch = <<>>

\* fetchFromProvider(provider, method, symbol) is called: `await rateLimiter.acquire()`.
OutFetch ==
    /\ Len(out.ops) < MaxFetches
    /\ out' = [out EXCEPT !.agg = LimAcquire(@, MinInterval, Len(out.ops) + 1, clock),
                          !.ops = Append(@, NewCall)]
    /\ UNCHANGED clock
    /\ UNCHANGED notOut

\* The aggregator's acquire() returns to the call at the head of its chain, which enters
\* fetchWithRetry and invokes the adapter: makeRequest runs `await this.rateLimiter.acquire()`.
AggAcquired ==
    /\ out.agg.queue # <<>>
    /\ TimerDue(out.agg.timer, clock)
    /\ LET i == Head(out.agg.queue).id
       IN  out' = [out EXCEPT !.agg = LimReturn(@, clock),
                              !.own = LimAcquire(@, OwnMinInterval, i, clock),
                              !.ops[i].pc = "ownLimiter"]
    /\ UNCHANGED clock
    /\ UNCHANGED notOut

\* The adapter's acquire() returns: makeRequest enters its fetchWithRetry, whose first
\* attempt calls fetch(...).
OwnAcquired ==
    /\ out.own.queue # <<>>
    /\ TimerDue(out.own.timer, clock)
    /\ LET i == Head(out.own.queue).id
       IN  out' = [out EXCEPT !.own = LimReturn(@, clock),
                              !.ops[i].pc = "network",
                              !.ops[i].inner = 0,
                              !.net = LogCall(@, clock)]
    /\ UNCHANGED clock
    /\ UNCHANGED notOut

\* The network call of op i returns a complete 2xx response.
OutResponseOk(i) ==
    /\ i <= Len(out.ops)
    /\ out.ops[i].pc = "network"
    /\ out' = [out EXCEPT !.ops[i].pc = "done"]
    /\ UNCHANGED clock
    /\ UNCHANGED notOut

\* The network call of op i fails or returns a response the adapter rejects.
OutResponseFail(i) ==
    /\ i <= Len(out.ops)
    /\ out.ops[i].pc = "network"
    /\ out' = [out EXCEPT !.ops[i] = ResponseFailed(@, clock)]
    /\ UNCHANGED clock
    /\ UNCHANGED notOut

\* The backoff of the adapter's fetchWithRetry ends: the next attempt calls fetch(...).
OutInnerWake(i) ==
    /\ i <= Len(out.ops)
    /\ out.ops[i].pc = "innerBackoff"
    /\ clock >= out.ops[i].wake
    /\ out' = [out EXCEPT !.ops[i].pc = "network",
                          !.ops[i].inner = @ + 1,
                          !.net = LogCall(@, clock)]
    /\ UNCHANGED clock
    /\ UNCHANGED notOut

\* The backoff of the aggregator's fetchWithRetry ends: the next attempt invokes the
\* adapter again, whose makeRequest waits on its RateLimiter.
OutOuterWake(i) ==
    /\ i <= Len(out.ops)
    /\ out.ops[i].pc = "outerBackoff"
    /\ clock >= out.ops[i].wake
    /\ out' = [out EXCEPT !.own = LimAcquire(@, OwnMinInterval, i, clock),
                          !.ops[i].pc = "ownLimiter",
                          !.ops[i].inner = 0,
                          !.ops[i].outer = @ + 1]
    /\ UNCHANGED clock
    /\ UNCHANGED notOut

\* A timer of a limiter or of a backoff is running and not due yet.
OutPending ==
    \/ out.agg.timer.set /\ out.agg.timer.at > clock
    \/ out.own.timer.set /\ out.own.timer.at > clock
    \/ \E i \in 1..Len(out.ops) :
            out.ops[i].pc \in {"innerBackoff", "outerBackoff"} /\ out.ops[i].wake > clock

\* A timer of a limiter or of a backoff is due: its callback is ready to run.
OutDue ==
    \/ out.agg.queue # <<>> /\ TimerDue(out.agg.timer, clock)
    \/ out.own.queue # <<>> /\ TimerDue(out.own.timer, clock)
    \/ \E i \in 1..Len(out.ops) :
            out.ops[i].pc \in {"innerBackoff", "outerBackoff"} /\ clock >= out.ops[i].wake

\* Time passes once the callbacks of the due timers have run (the event loop is otherwise
\* idle); past MaxClock only as far as the running timers need.
OutTick ==
    /\ ~OutDue
    /\ IF clock < MaxClock THEN TRUE ELSE OutPending
    /\ clock' = clock + 1
    /\ UNCHANGED out
    /\ UNCHANGED notOut

OutNext ==
    \/ OutFetch
    \/ AggAcquired
    \/ OwnAcquired
    \/ \E i \in 1..MaxFetches : OutResponseOk(i)
    \/ \E i \in 1..MaxFetches : OutResponseFail(i)
    \/ \E i \in 1..MaxFetches : OutInnerWake(i)
    \/ \E i \in 1..MaxFetches : OutOuterWake(i)
    \/ OutTick

SpecOutbound == OutInit /\ [][OutNext]_vars

(***************************************************************************)
(* Specification of the clients of withMonitoring: calls on any provider,  *)
(* whose operations settle in any order.                                   *)
(***************************************************************************)
notMonitor == <<now, cache, lastOp, watch, tok, providers, aggCache, fetch, limVars, retry, stored, adapter, out, svc, val>>

MonitorInit ==
    /\ LimQuiet
    /\ retry = RetryIdle
    /\ stored = NoStore
    /\ adapter = AdapterIdle
    /\ out = OutIdle
    /\ monitor = MonitorIdle
    /\ svc = ServiceIdle
    /\ val = ValidateIdle
    /\ now = 0
    /\ cache = <<>>
    /\ lastOp = NoOp
    /\ watch = NoWatch
    /\ tok = TokIdle
    /\ providers = <<>>
    /\ aggCache = <<>>
    /\ fetch = <<>>

\* withMonitoring(p, operation) is called: startTime is read, operation() returns its
\* promise and the two callbacks are chained on it.
MonitorCall(p) ==
    /\ Len(monitor.ops) < MaxFetches
    /\ monitor' = [monitor EXCEPT !.ops = Append(@,
            [provider |-> p, startTime |-> monitor.time, settled |-> Pending, out |-> Pending])]
    /\ UNCHANGED notMonitor

\* The operation of call i resolves with v: the then callback runs.
MonitorResolve(i, v) ==
    /\ i <= Len(monitor.ops)
    /\ monitor.ops[i].settled = Pending
    /\ LET op == monitor.ops[i]
           r == MonitoringThen(monitor.metrics, op.provider, op.startTime, monitor.time, v)
       IN  monitor' = [monitor EXCEPT !.metrics = r.metrics,
                                      !.ops[i].settled = Fulfilled(v),
                                      !.ops[i].out = r.out]
    /\ UNCHANGED notMonitor

\* The operation of call i rejects with an Error: the then callback is skipped and the
\* catch callback runs.
MonitorReject(i, msg) ==
    /\ i <= Len(monitor.ops)
    /\ monitor.ops[i].settled = Pending
    /\ LET op == monitor.ops[i]
           r == MonitoringCatch(monitor.metrics, op.provider, op.startTime, monitor.time, OpError(msg))
       IN  monitor' = [monitor EXCEPT !.metrics = r.metrics,
                                      !.ops[i].settled = Rejected(OpError(msg)),
                                      !.ops[i].out = r.out]
    /\ UNCHANGED notMonitor

\* Time passes.
MonitorTick ==
    /\ monitor.time < MaxTime
    /\ monitor' = [monitor EXCEPT !.time = @ + 1]
    /\ UNCHANGED notMonitor

MonitorNext ==
    \/ \E p \in MonitorProviders : MonitorCall(p)
    \/ \E i \in 1..MaxFetches, v \in OpResults : MonitorResolve(i, v)
    \/ \E i \in 1..MaxFetches, msg \in OpErrors : MonitorReject(i, msg)
    \/ MonitorTick

SpecMonitor == MonitorInit /\ [][MonitorNext]_vars

(***************************************************************************)
(* Specification of one client of MarketService.getMarketData.             *)
(***************************************************************************)
notService == <<now, cache, lastOp, watch, tok, providers, aggCache, fetch, limVars, retry, stored, adapter, out, monitor, val>>

ServiceInit ==
    /\ LimQuiet
    /\ retry = RetryIdle
    /\ stored = NoStore
    /\ adapter = AdapterIdle
    /\ out = OutIdle
    /\ monitor = MonitorIdle
    /\ svc = ServiceIdle
    /\ val = ValidateIdle
    /\ now = 0
    /\ cache = <<>>
    /\ lastOp = NoOp
    /\ watch = NoWatch
    /\ tok = TokIdle
    /\ providers = <<>>
    /\ aggCache = <<>>
    /\ fetch = <<>>

\* getMarketData(symbol) is called: the loop starts with the first provider's isSupported.
ServiceCall(symbol) ==
    /\ svc.pc = "idle"
    /\ svc' = NextProvider([ServiceIdle EXCEPT !.symbol = symbol])
    /\ UNCHANGED notService

\* The fetch of isSupported settles: when the provider supports the symbol its
\* getMarketData is called, otherwise the loop goes on.
SupportedSettles(response) ==
    /\ svc.pc = "isSupported"
    /\ LET p == ServiceProviders[svc.idx]
           b == IsSupported(p, svc.symbol, response)
           s == [svc EXCEPT !.log = Append(@, [provider |-> p, call |-> "isSupported",
                                                threw |-> FALSE, value |-> [tag |-> "boolean", value |-> b]])]
       IN  svc' = IF b THEN [s EXCEPT !.pc = "getMarketData"] ELSE NextProvider(s)
    /\ UNCHANGED notService

\* The fetch of the provider's getMarketData settles: its record is returned, or its
\* error is caught into lastError and the loop goes on.
DataSettles(response) ==
    /\ svc.pc = "getMarketData"
    /\ LET p == ServiceProviders[svc.idx]
           r == GetMarketData(p, svc.symbol, response)
           s == [svc EXCEPT !.log = Append(@, [provider |-> p, call |-> "getMarketData",
                                                threw |-> r.threw, value |-> r.value])]
       IN  svc' = IF r.threw
                  THEN NextProvider([s EXCEPT !.lastError = r.value])
                  ELSE [s EXCEPT !.pc = "returned", !.outcome = r.value]
    /\ UNCHANGED notService

\* The caller takes the result or the error.
ServiceDone ==
    /\ svc.pc \in {"returned", "thrown"}
    /\ svc' = ServiceIdle
    /\ UNCHANGED notService

ServiceNext ==
    \/ \E symbol \in ServiceSymbols : ServiceCall(symbol)
    \/ \E response \in HttpResponses : SupportedSettles(response)
    \/ \E response \in HttpResponses : DataSettles(response)
    \/ ServiceDone

SpecService == ServiceInit /\ [][ServiceNext]_vars

(***************************************************************************)
(* Specification of validateResponse: it is called on any response object  *)
(* with any list of required fields, and the caller sees how it ended.     *)
(***************************************************************************)
notValidate == <<now, cache, lastOp, watch, tok, providers, aggCache, fetch, limVars, retry, stored, adapter, out, monitor, svc>>

ValidateInit ==
    /\ LimQuiet
    /\ retry = RetryIdle
    /\ stored = NoStore
    /\ adapter = AdapterIdle
    /\ out = OutIdle
    /\ monitor = MonitorIdle
    /\ svc = ServiceIdle
    /\ val = ValidateIdle
    /\ now = 0
    /\ cache = <<>>
    /\ lastOp = NoOp
    /\ watch = NoWatch
    /\ tok = TokIdle
    /\ providers = <<>>
    /\ aggCache = <<>>
    /\ fetch = <<>>

ValidateCall(data, requiredFields) ==
    /\ val.pc = "idle"
    /\ val' = [pc |-> "done", data |-> data, requiredFields |-> requiredFields,
               outcome |-> ValidateResponse(data, requiredFields, AdapterName)]
    /\ UNCHANGED notValidate

\* The caller goes on (makeRequest returns the data, or its retry loop sees the throw).
ValidateDone ==
    /\ val.pc = "done"
    /\ val' = ValidateIdle
    /\ UNCHANGED notValidate

ValidateNext ==
    \/ \E data \in ResponseObjects, requiredFields \in RequiredFieldLists :
            ValidateCall(data, requiredFields)
    \/ ValidateDone

SpecValidate == ValidateInit /\ [][ValidateNext]_vars

(***************************************************************************)
(* Properties of the CacheManager (checked under SpecCache).               *)
(***************************************************************************)
\* The get that produced this state looked up the key of the watched set call.
GetOfWatched == lastOp.op = "get" /\ watch.on /\ watch.key = lastOp.key

\* C7: for maxSize n >= 1, after any sequence of set, get and sweep steps over any
\* string keys (the empty string included) the backing map holds at most n entries.
C7_SizeAtMostMaxSize == Len(cache) <= CacheMaxSize

\* C8: a set of a new key that raises the size above maxSize removes exactly one
\* entry, and that entry has the smallest insertion timestamp among those present.
C8_EvictsExactlyTheOldest ==
    [][(lastOp'.op = "set" /\ ~MapHas(cache, lastOp'.key) /\ Len(cache) + 1 > CacheMaxSize) =>
        LET new == lastOp'.key
            present == MapKeys(cache) \cup {new}
            ts(k) == IF k = new THEN now ELSE MapGet(cache, k).timestamp
        IN  \E victim \in present :
                /\ MapKeys(cache') = present \ {victim}
                /\ \A k \in present : ts(victim) <= ts(k)
      ]_cacheVars

\* C9 as claimed: a get(key) at a time >= insertedAt + ttl returns not-found, for
\* every get until the key is set again.
C9_NotFoundFromExpiryInstant ==
    (GetOfWatched /\ now >= watch.at + CacheTTL) => lastOp.result = Null

\* C9 as amended: a get(key) at a time > insertedAt + ttl returns not-found, for
\* every get until the key is set again (at the instant insertedAt + ttl itself the
\* entry is still served).
C9_NotFoundAfterExpiry ==
    (GetOfWatched /\ now > watch.at + CacheTTL) => lastOp.result = Null

\* C9 witness: a get found the stale entry of a non-null value still in the map after
\* its expiry, returned not-found and deleted it.
C9_Witness ==
    /\ GetOfWatched /\ now > watch.at + CacheTTL
    /\ lastOp.found /\ ~watch.evicted /\ watch.data # Null
    /\ lastOp.result = Null
    /\ ~MapHas(cache, lastOp.key)

\* C10: set(k, v) followed by get(k) before expiry, with no set of k and no eviction
\* of k in between, returns exactly v (null and nested structures included).
C10_RoundTrip ==
    (GetOfWatched /\ ~watch.evicted /\ now < watch.at + CacheTTL) => lastOp.result = watch.data

\* C10 witness: a nested object set one tick earlier is read back unchanged.
C10_Witness ==
    /\ GetOfWatched /\ ~watch.evicted /\ now < watch.at + CacheTTL /\ now > watch.at
    /\ watch.data.tag = "object"
    /\ lastOp.result = watch.data

\* C11: a get(key) on a present, unexpired entry leaves the whole cache unchanged:
\* the keys, every entry's value, timestamp and expiry, their order, and so the
\* entry the next eviction would pick (eviction is by insertion, not by access).
C11_GetLeavesCacheUnchanged ==
    [][(lastOp'.op = "get" /\ MapHas(cache, lastOp'.key)
            /\ ~IsExpired(now, MapGet(cache, lastOp'.key))) =>
        /\ cache' = cache
        /\ OldestKey(cache') = OldestKey(cache)
      ]_cacheVars

\* C11 witness: a get served the older of two live entries, some time after it was
\* inserted, and that entry is still the one the next eviction picks.
C11_Witness ==
    /\ lastOp.op = "get" /\ lastOp.key = "key1" /\ lastOp.found
    /\ Len(cache) = 2 /\ MapHas(cache, "key1")
    /\ lastOp.result = MapGet(cache, "key1").data
    /\ MapGet(cache, "key1").timestamp < now
    /\ \E i \in 1..Len(cache) : cache[i].timestamp > MapGet(cache, "key1").timestamp
    /\ OldestKey(cache).key = "key1"

\* C35: a set of a key already present evicts nothing and leaves every other entry as it
\* was, whatever the size of the map; the key's entry carries the time of this set as
\* its timestamp, that time plus ttl as its expiry, and the value just set.
C35_ResetEvictsNothing ==
    [][(lastOp'.op = "set" /\ MapHas(cache, lastOp'.key)) =>
        /\ \A k \in MapKeys(cache) \ {lastOp'.key} :
                MapHas(cache', k) /\ MapGet(cache', k) = MapGet(cache, k)
        /\ MapHas(cache', lastOp'.key)
        /\ MapGet(cache', lastOp'.key).timestamp = now
        /\ MapGet(cache', lastOp'.key).expiresAt = now + CacheTTL
        /\ (watch'.on /\ watch'.key = lastOp'.key) =>
                MapGet(cache', lastOp'.key).data = watch'.data
      ]_cacheVars

\* C36: the eviction victim is the key whose most recent set is the oldest, also when
\* sets share a clock tick. In particular, when a set of a new key directly follows a
\* set of key k and other keys are present, their most recent sets are older than k's,
\* so k is not the victim.
C36_VictimHasOldestLatestSet ==
    [][(/\ lastOp.op = "set" /\ MapHas(cache, lastOp.key)
        /\ lastOp'.op = "set" /\ ~MapHas(cache, lastOp'.key)
        /\ Len(cache) >= 2) =>
            MapHas(cache', lastOp.key)
      ]_cacheVars

\* C37: a set that evicts an unexpired entry does so only when no entry of the map has
\* expired (the entry being written is new): eviction never prefers an unexpired entry to
\* an expired one.
C37_EvictionTakesExpiredFirst ==
    [][(lastOp'.op = "set" /\ now' = now) =>
        \A victim \in MapKeys(cache) \ MapKeys(cache') :
            ~IsExpired(now, MapGet(cache, victim)) =>
                \A k \in MapKeys(cache) \ {lastOp'.key} : ~IsExpired(now, MapGet(cache, k))
      ]_cacheVars

\* C37 witness: the watched entry had expired and was not yet swept when a set overflowed
\* the map; it is the entry that was evicted, and the entries that remain are unexpired.
C37_Witness ==
    /\ lastOp.op = "set"
    /\ watch.on /\ watch.evicted /\ watch.key # lastOp.key
    /\ now > watch.at + CacheTTL
    /\ Len(cache) = CacheMaxSize
    /\ \A i \in 1..Len(cache) : ~IsExpired(now, cache[i])

\* C25: with no get call, the cleanup timer's period is at most ttl/2, each of its runs
\* removes every expired entry and leaves every unexpired entry as it is, and whenever
\* the map holds entries it is eventually empty: every entry in it has been deleted.
C25_SweepDeletesExpiredEntries ==
    /\ [](2 * TwiceCleanupInterval(CacheTTL) <= 2 * CacheTTL)
    /\ [][(now' = now /\ lastOp'.op = "none") =>
            \A k \in Keys :
                /\ MapHas(cache', k) <=> (MapHas(cache, k) /\ now <= MapGet(cache, k).expiresAt)
                /\ MapHas(cache', k) => (MapGet(cache', k) = MapGet(cache, k))
         ]_cacheVars
    /\ (cache # <<>>) ~> (cache = <<>>)

\* C25 witness: an entry that was never read nor evicted is gone after its expiry,
\* while a younger entry is still in the map.
C25_Witness ==
    /\ lastOp = NoOp
    /\ watch.on /\ ~watch.evicted /\ now > watch.at + CacheTTL
    /\ ~MapHas(cache, watch.key)
    /\ cache # <<>>

\* C26: on a cache with maxSize >= 1, a get of the key just set, in the same clock
\* tick, returns the value just set, whatever sets, gets and sweeps came before.
C26_GetAfterSetReturnsValue ==
    (SmallMaxSize >= 1 /\ lastOp.op = "set" /\ watch.on /\ watch.key = lastOp.key) =>
        CacheGet(cache, lastOp.key, now).result = watch.data

\* C27: no two consecutive network calls to the provider are closer in time than the
\* aggregator's minInterval, retry attempts and the calls of concurrent fetches included.
C27_OutboundCallsSpaced ==
    \A i \in 1..Len(out.net), j \in 1..Len(out.net) :
        i < j => out.net[j] - out.net[i] >= MinInterval

\* The calls on provider p whose operation has settled in the given way.
SettledCalls(p, kind) ==
    {i \in 1..Len(monitor.ops) :
        monitor.ops[i].provider = p /\ monitor.ops[i].settled.kind = kind}

\* getProviderStats(p), with the counters at zero for a provider not recorded yet.
StatsOf(p) ==
    IF MapHas(monitor.metrics, p) THEN MapGet(monitor.metrics, p) ELSE NewProviderMetrics(p)

\* C29: for every provider, each completed withMonitoring call has recorded one request
\* and one of success or failure, so requestCount = successCount + failureCount, in any
\* completion order; and each call's promise settles exactly as its operation did.
C29_OneRequestOneOutcomePerCall ==
    /\ \A p \in MonitorProviders :
            /\ StatsOf(p).successCount = Cardinality(SettledCalls(p, "fulfilled"))
            /\ StatsOf(p).failureCount = Cardinality(SettledCalls(p, "rejected"))
            /\ StatsOf(p).requestCount =
                    Cardinality(SettledCalls(p, "fulfilled") \cup SettledCalls(p, "rejected"))
            /\ StatsOf(p).requestCount = StatsOf(p).successCount + StatsOf(p).failureCount
    /\ \A i \in 1..Len(monitor.ops) : monitor.ops[i].out = monitor.ops[i].settled

\* C29 witness: of two calls on one provider, the second has completed with a failure
\* while the first is still pending, and the failure is the one request recorded.
C29_Witness ==
    /\ Len(monitor.ops) >= 2
    /\ monitor.ops[1].provider = "test-provider" /\ monitor.ops[2].provider = "test-provider"
    /\ monitor.ops[1].settled = Pending
    /\ monitor.ops[2].out.kind = "rejected"
    /\ StatsOf("test-provider").requestCount = 1
    /\ StatsOf("test-provider").failureCount = 1

(***************************************************************************)
(* Properties of MarketDataAggregator.fetchTokenData (checked under        *)
(* SpecToken).                                                             *)
(***************************************************************************)
SubFailed == {n \in SubNames : tok.sub[n].state = "rejected"}
SubSucceeded == {n \in SubNames : tok.sub[n].state = "fulfilled"}

\* C3: for every combination of outcomes of the three sub-fetches, the returned status is
\* success exactly when no call failed (and then no errors list is attached), and partial
\* exactly when at least one call succeeded and at least one failed (and then errors is
\* non-empty).
C3_StatusMatchesOutcomes ==
    tok.pc = "done" =>
        /\ (tok.ret.status = "success") <=> (SubFailed = {})
        /\ (SubFailed = {}) => ("errors" \notin DOMAIN tok.ret)
        /\ (tok.ret.status = "partial") <=> (SubSucceeded # {} /\ SubFailed # {})
        /\ (SubSucceeded # {} /\ SubFailed # {}) =>
                ("errors" \in DOMAIN tok.ret /\ Len(tok.ret.errors) > 0)

\* C4: when every adapter call of a fetch fails, the fetch returns status error together
\* with a structurally valid zero-valued record.
C4_AllFailedGivesError ==
    (tok.pc = "done" /\ SubSucceeded = {}) =>
        /\ tok.ret.status = "error"
        /\ \A n \in SubNames : tok.ret[n] = CreateDefaultAnalysis(tok.symbol)[n]

(***************************************************************************)
(* Properties of EnhancedMarketDataAggregator (checked under SpecAgg).     *)
(***************************************************************************)
\* The call of provider p in fetch f ended in failure (retries exhausted) / in a record.
CallFailed(f, p) ==
    fetch[f].calls[p].state = "fulfilled" /\ fetch[f].calls[p].value = Null
CallOk(f, p) ==
    fetch[f].calls[p].state = "fulfilled" /\ fetch[f].calls[p].value # Null

\* C1: a fetch of a (symbol, operation) whose earlier result is still in the cache, within
\* its TTL, is served from the cache and starts no provider call.
C1_LiveEntryServedFromCache ==
    \A f \in Fetches :
        (Configured # {} /\ fetch[f].pc # "idle" /\ fetch[f].hadLive) =>
            /\ fetch[f].fromCache
            /\ \A p \in ProviderNames : fetch[f].calls[p].state = "none"

\* C2: whatever subset of provider calls fails, a fetch does not throw and returns a
\* well-formed record.
C2_FetchReturnsRecord ==
    \A f \in Fetches :
        (Configured # {} /\ fetch[f].pc = "done") =>
            (~fetch[f].thrown /\ fetch[f].ret.tag = "object")

\* C5: if adapter A fails and adapter B succeeds, the fetch returns status partial, an
\* errors entry naming A with A's failure message, and B's record as value.
C5_PartialOnMixedOutcome ==
    \A f \in Fetches : \A a \in Configured, b \in Configured :
        (fetch[f].pc = "done" /\ ~fetch[f].fromCache /\ CallFailed(f, a) /\ CallOk(f, b)) =>
            /\ {"status", "errors", "value"} \subseteq DOMAIN fetch[f].ret
            /\ fetch[f].ret.status = "partial"
            /\ \E i \in 1..Len(fetch[f].ret.errors) :
                    /\ fetch[f].ret.errors[i].provider = a
                    /\ fetch[f].ret.errors[i].message = fetch[f].calls[a].lastError
            /\ fetch[f].ret.value = fetch[f].calls[b].value

ReturnsOf(l) == SelectSeq(returns, LAMBDA r : r.limiter = l)

CallsOf(l) == {i \in 1..Len(calls) : calls[i].limiter = l}

Returned(id) == \E i \in 1..Len(returns) : returns[i].id = id

\* C12: under every interleaving of concurrent acquire() calls on one limiter, no two
\* returns are closer than minInterval in time.
C12_ReturnsSpacedByMinInterval ==
    \A l \in Limiters :
        LET r == ReturnsOf(l)
        IN  \A i \in 1..Len(r), j \in 1..Len(r) :
                i < j => r[j].at - r[i].at >= MinInterval

\* C13: the acquire() calls on one limiter return in the order they were called.
C13_ReturnsInCallOrder ==
    \A l \in Limiters :
        LET r == ReturnsOf(l)
        IN  \A i \in 1..Len(r), j \in 1..Len(r) :
                i < j => r[i].id < r[j].id

\* C13 witness: two calls queued on one limiter returned in call order, while a call
\* made later on the other limiter returned before an earlier call of the first.
C13_Witness ==
    /\ \E l \in Limiters :
            /\ Len(ReturnsOf(l)) >= 2
            /\ \E c \in CallsOf(l) : ~calls[c].sequential /\ Returned(c)
    /\ \E i \in 1..Len(returns), j \in 1..Len(returns) :
            /\ i < j
            /\ returns[i].limiter # returns[j].limiter
            /\ returns[i].id > returns[j].id

\* C14: when every acquire() on a limiter was called only after the previous one had
\* returned, the return times of consecutive calls differ by at least minInterval.
C14_SequentialReturnsSpaced ==
    \A l \in Limiters :
        (\A c \in CallsOf(l) : calls[c].sequential) =>
            LET r == ReturnsOf(l)
            IN  \A i \in 1..Len(r) :
                    i < Len(r) => r[i + 1].at - r[i].at >= MinInterval

\* C14 witness: three calls made one after another on one limiter have returned, one
\* of them called right at the return of the one before it, exactly minInterval apart.
C14_Witness ==
    \E l \in Limiters :
        LET r == ReturnsOf(l)
        IN  /\ \A c \in CallsOf(l) : calls[c].sequential
            /\ Len(r) = 3
            /\ \E i \in 1..2 :
                    /\ calls[r[i + 1].id].at = r[i].at
                    /\ r[i + 1].at = r[i].at + MinInterval

\* Every call that has not returned is in the chain of its limiter.
PendingChained ==
    \A c \in 1..Len(calls) :
        Returned(c) \/ \E i \in 1..Len(limiters[calls[c].limiter].queue) :
                            limiters[calls[c].limiter].queue[i].id = c

\* C15: acquire() only ever delays: a call stays chained until it returns, and every
\* call returns eventually when timers fire, however many calls are queued before it.
C15_EveryAcquireReturns ==
    /\ []PendingChained
    /\ \A c \in 1..MaxCalls : (Len(calls) >= c) ~> Returned(c)

\* C15 witness: a call made while two earlier calls were still queued on its limiter
\* has returned.
C15_Witness ==
    \E l \in Limiters :
        /\ Len(ReturnsOf(l)) = 3
        /\ \E t \in StartTime..MaxClock : \A c \in CallsOf(l) : calls[c].at = t

(***************************************************************************)
(* Properties of fetchWithRetry (checked under SpecRetry).                 *)
(***************************************************************************)
\* The positions of the log holding events of one kind.
EventsOf(ev) == {j \in 1..Len(retry.log) : retry.log[j].ev = ev}

Invocations == Cardinality(EventsOf("invoke"))
OpFailures == Cardinality(EventsOf("fail"))

LastEvent == retry.log[Len(retry.log)]

\* C16: with maxRetries m >= 1, an operation that fails k-1 times and then succeeds
\* (k <= m) makes the call return that value after exactly k invocations; an operation
\* that fails m times makes the call throw after exactly m invocations.
C16_InvocationCount ==
    LET m == retry.config.maxRetries
    IN  (retry.pc # "idle" /\ m >= 1) =>
            /\ (LastEvent.ev = "ok") =>
                    /\ retry.pc = "returned"
                    /\ retry.outcome = LastEvent.val
                    /\ Invocations = OpFailures + 1
                    /\ Invocations <= m
            /\ (OpFailures = m) => (retry.pc = "thrown" /\ Invocations = m)
            /\ (retry.pc = "returned") => (LastEvent.ev = "ok")
            /\ (retry.pc = "thrown") => (OpFailures = m)

\* C16 witness: with the largest maxRetries, the operation failed on every invocation
\* but the last one and the call returned the object it resolved to.
C16_Witness ==
    /\ retry.pc = "returned" /\ retry.config.maxRetries = MaxAttempts
    /\ Invocations = MaxAttempts /\ OpFailures = MaxAttempts - 1
    /\ retry.outcome.tag = "object"

\* C17: in one call of the utils.ts fetchWithRetry the attempts are sequential: the
\* first starts at the call with no wait; attempt i+1 starts right after attempt i has
\* failed and a wait of min(baseDelay * 2^i, maxDelay) has elapsed since that failure;
\* after the final failed attempt the call throws without waiting.
C17_SequentialBackoff ==
    (retry.pc # "idle" /\ retry.impl = "utils") =>
        /\ \A j \in 1..Len(retry.log) : (retry.log[j].ev = "invoke") <=> (j % 2 = 1)
        /\ (Len(retry.log) >= 1) => (retry.log[1].at = 0)
        /\ \A j \in EventsOf("invoke") :
                j > 1 =>
                    LET i == (j - 1) \div 2 - 1
                        failed == retry.log[j - 1]
                        wait == Min(retry.config.baseDelay * Pow2(i), retry.config.maxDelay)
                    IN  /\ failed.ev = "fail"
                        /\ failed.delay = wait
                        /\ retry.log[j].at = failed.at + wait
        /\ (retry.pc = "thrown" /\ Len(retry.log) >= 1) =>
                (LastEvent.ev = "fail" /\ LastEvent.delay = 0 /\ retry.time = LastEvent.at)

\* C17 witness: a call that threw after three attempts, the second wait having been
\* cut down to maxDelay.
C17_Witness ==
    /\ retry.pc = "thrown" /\ retry.impl = "utils"
    /\ retry.config = [maxRetries |-> 3, baseDelay |-> 2, maxDelay |-> 3]
    /\ Invocations = 3
    /\ retry.log[2].delay = 2 /\ retry.log[4].delay = 3
    /\ retry.log[5].at = retry.log[4].at + 3

\* C18: when every attempt has failed, the utils.ts fetchWithRetry throws a
\* ProviderError whose provider is the given provider name and whose message wraps
\* the message of the last failure.
C18_ThrowsProviderErrorOfLastFailure ==
    (retry.pc = "thrown" /\ retry.impl = "utils" /\ OpFailures >= 1) =>
        /\ retry.outcome.tag = "ProviderError"
        /\ retry.outcome.provider = retry.providerName
        /\ retry.outcome.message.provider = retry.providerName
        /\ retry.outcome.message.cause = LastEvent.msg

\* C18 witness: the last failure had another message than the first one, and the
\* thrown ProviderError carries the last.
C18_Witness ==
    /\ retry.pc = "thrown" /\ retry.impl = "utils" /\ OpFailures >= 2
    /\ retry.log[2].msg # LastEvent.msg
    /\ retry.outcome.tag = "ProviderError"
    /\ retry.outcome.message.cause = LastEvent.msg

\* C38: the errors list fetchTokenData returns names the failed sub-fetches in the order
\* market, technical, social, each with the reason of its own failure, and the status
\* follows from the same outcomes: the result does not depend on the order in which the
\* sub-fetches settled.
C38_ErrorsInFixedOrder ==
    (tok.pc = "done") =>
        LET failed == SelectSeq(SubFetches, LAMBDA n : tok.sub[n].state = "rejected")
            errors == IF "errors" \in DOMAIN tok.ret THEN tok.ret.errors ELSE <<>>
        IN  /\ Len(errors) = Len(failed)
            /\ \A j \in 1..Len(failed) :
                    /\ errors[j].label = ErrorLabel(failed[j])
                    /\ errors[j].reason = tok.sub[failed[j]].lastError
            /\ tok.ret.status = (IF failed = <<>> THEN "success" ELSE "partial")

\* C38 witness: the three sub-fetches failed, social first and market last, each with its
\* own reason, and the errors list starts with the market error.
C38_Witness ==
    /\ tok.pc = "done"
    /\ tok.order = <<"social", "technical", "market">>
    /\ \A n \in SubNames : tok.sub[n].state = "rejected"
    /\ tok.sub["market"].lastError # tok.sub["social"].lastError
    /\ tok.ret.errors[1].label = "Market data error"
    /\ tok.ret.errors[3].label = "Social data error"

\* The place of provider p in MarketService.providers.
ProviderRank(p) == CHOOSE i \in 1..Len(ServiceProviders) : ServiceProviders[i] = p

\* The getMarketData calls completed so far, in the order they were made.
DataCalls == SelectSeq(svc.log, LAMBDA e : e.call = "getMarketData")

\* C39: MarketService.getMarketData asks its providers in the order CoinGecko, Cookie.fun,
\* and calls getMarketData only on a provider that reported the symbol supported; it
\* returns the record of the first such call that succeeds and calls nothing after it;
\* it throws only after every provider was asked and none returned data, and then
\* throws the error of the last failed call, or the generic error when no call failed.
C39_FirstSupportedProviderWins ==
    LET log == svc.log
    IN  /\ \A i \in 1..Len(log), j \in 1..Len(log) :
                i < j =>
                    /\ ProviderRank(log[i].provider) <= ProviderRank(log[j].provider)
                    /\ (log[i].provider = log[j].provider) =>
                            (log[i].call = "isSupported" /\ log[j].call = "getMarketData")
        /\ \A j \in 1..Len(log) :
                /\ (log[j].call = "getMarketData") =>
                        /\ j > 1
                        /\ log[j - 1].provider = log[j].provider
                        /\ log[j - 1].value = [tag |-> "boolean", value |-> TRUE]
                /\ (log[j].call = "getMarketData" /\ ~log[j].threw) =>
                        (j = Len(log) /\ svc.pc = "returned")
        /\ (svc.pc = "returned") =>
                /\ log # <<>>
                /\ log[Len(log)].call = "getMarketData" /\ ~log[Len(log)].threw
                /\ svc.outcome = log[Len(log)].value
                /\ svc.outcome = MarketDataOf(log[Len(log)].provider, svc.symbol)
        /\ (svc.pc = "thrown") =>
                /\ \A i \in 1..Len(ServiceProviders) :
                        \E j \in 1..Len(log) :
                            log[j].provider = ServiceProviders[i] /\ log[j].call = "isSupported"
                /\ \A j \in 1..Len(DataCalls) : DataCalls[j].threw
                /\ svc.outcome = (IF DataCalls = <<>>
                                  THEN OpError(<<"No provider could fetch data for", svc.symbol>>)
                                  ELSE DataCalls[Len(DataCalls)].value)

\* C39 witness: CoinGecko reported the symbol supported and its fetch failed, Cookie.fun
\* reported it unsupported, and the call threw CoinGecko's error.
C39_Witness ==
    /\ svc.pc = "thrown"
    /\ Len(svc.log) = 3
    /\ svc.log[2].provider = "CoinGecko" /\ svc.log[2].call = "getMarketData" /\ svc.log[2].threw
    /\ svc.log[3].provider = "Cookie.fun" /\ svc.log[3].call = "isSupported"
    /\ svc.outcome = svc.log[2].value

\* C31: validateResponse throws, and then a ProviderError, exactly when some required
\* field is absent from the response object; a field that is present passes whatever
\* its value.
C31_ThrowsExactlyWhenFieldAbsent ==
    (val.pc = "done") =>
        /\ val.outcome.threw <=>
                (\E i \in 1..Len(val.requiredFields) : val.requiredFields[i] \notin DOMAIN val.data)
        /\ val.outcome.threw => val.outcome.value.tag = "ProviderError"

\* C32: when aggregateData is called for a (symbol, operation) whose key has no cache
\* entry while another call for the same key still has provider calls in flight, the
\* new call issues no provider calls of its own.
C32_OneFanOutPerKey ==
    [][\A f \in OverlapFetches, g \in OverlapFetches :
            (/\ f # g
             /\ fetch[f].pc = "idle" /\ fetch'[f].pc # "idle"
             /\ fetch[g].pc = "awaiting"
             /\ fetch'[f].symbol = fetch[g].symbol /\ fetch'[f].method = fetch[g].method
             /\ \E p \in ProviderNames :
                    fetch[g].calls[p].state \in {"acquiring", "attempting", "waiting"}
             /\ ~MapHas(aggCache, CacheKey(fetch[g].symbol, fetch[g].method)))
            => \A p \in ProviderNames : fetch'[f].calls[p].state = "none"
      ]_vars

\* C33: when every provider call settles and every timer fires, a fetch that is awaiting
\* its provider calls always comes to its end; no provider is tried more than maxRetries
\* times (so there are at most maxRetries - 1 backoff waits per provider).
C33_FetchTerminates ==
    /\ [](\A f \in Fetches, p \in ProviderNames : fetch[f].calls[p].attempt < MaxRetries)
    /\ \A f \in Fetches : (fetch[f].pc = "awaiting") ~> (fetch[f].pc = "done")

\* C33 witness: a fetch has ended after one provider failed maxRetries times, with a
\* backoff wait between the attempts, while another provider answered.
C33_Witness ==
    \E f \in Fetches :
        /\ fetch[f].pc = "done"
        /\ \E p \in ProviderNames, q \in ProviderNames :
                /\ fetch[f].calls[p].state = "fulfilled"
                /\ fetch[f].calls[p].attempt = MaxRetries - 1
                /\ fetch[f].calls[p].lastError # ""
                /\ fetch[f].calls[p].value = Null
                /\ fetch[f].calls[q].state = "fulfilled"
                /\ fetch[f].calls[q].lastError = ""

\* C34: for every configuration, maxRetries <= 0 included, a fetchWithRetry call that
\* has ended has invoked the operation at least once, and when it threw, the operation
\* failed at least once.
C34_OperationInvokedAtLeastOnce ==
    /\ (retry.pc \in {"returned", "thrown"}) => (Invocations >= 1)
    /\ (retry.pc = "thrown") => (OpFailures >= 1)

(***************************************************************************)
(* Properties of the aggregator's caching across two fetches (checked      *)
(* under SpecAgg).                                                         *)
(***************************************************************************)
\* C19: after a cache-miss fetch in which every adapter failed, a second fetch of the
\* same key within the TTL is served from the cache and makes no provider call.
C19_AllFailedResultServedFromCache ==
    \A f \in Fetches :
        (/\ fetch[f].pc # "idle"
         /\ fetch[f].repeatOf.on /\ fetch[f].repeatOf.allFailed
         /\ fetch[f].repeatOf.key = CacheKey(fetch[f].symbol, fetch[f].method)) =>
            /\ fetch[f].fromCache
            /\ \A p \in ProviderNames : fetch[f].calls[p].state = "none"

\* C20: two fetches of the same operation whose symbols differ only in letter case
\* use the same cache key, and the second one, within the TTL, is a cache hit.
C20_CaseVariantsShareCacheKey ==
    \A f \in Fetches :
        (/\ Configured # {}
         /\ fetch[f].pc # "idle"
         /\ fetch[f].repeatOf.on
         /\ fetch[f].repeatOf.method = fetch[f].method
         /\ fetch[f].repeatOf.symbol # fetch[f].symbol
         /\ Upper(fetch[f].repeatOf.symbol) = Upper(fetch[f].symbol)) =>
            /\ fetch[f].repeatOf.key = CacheKey(fetch[f].symbol, fetch[f].method)
            /\ fetch[f].fromCache

(***************************************************************************)
(* Properties of fetchFromProvider on the CoinGecko adapter (checked under *)
(* SpecAdapter).                                                           *)
(***************************************************************************)
\* C21: during one fetch the aggregator invokes the adapter operation exactly once,
\* so the network attempts made to the provider never exceed the adapter's own
\* maxRetries (3).
C21_NoRetriesByAggregator ==
    (adapter.pc # "idle") =>
        /\ adapter.invocations = 1
        /\ adapter.attempts <= AdapterRetryConfig.maxRetries

\* C24: a failure of the adapter operation reaches its caller as a ProviderError that
\* carries the provider name and, when the last cause was a non-2xx response, the
\* HTTP status of that response, also after the retries are exhausted.
C24_ProviderErrorKeepsStatus ==
    (adapter.pc # "idle" /\ adapter.inner.pc = "thrown") =>
        /\ adapter.inner.outcome.tag = "ProviderError"
        /\ adapter.inner.outcome.provider = AdapterName
        /\ (adapter.lastResponse.kind = "status") =>
                (adapter.inner.outcome.statusCode = StatusCode(adapter.lastResponse.status))

(***************************************************************************)
(* Properties of the aggregator's merge step, construction, fan-out and    *)
(* termination (checked under SpecAgg, the last under SpecAggFair).        *)
(***************************************************************************)
\* The first provider, in the order of the providers map, whose outcome is a record.
FirstSuccess(results) ==
    LET ok == {i \in 1..Len(results) : results[i] # Null}
    IN  IF ok = {} THEN 0 ELSE CHOOSE i \in ok : \A j \in ok : i <= j

\* C22: for every list of per-adapter outcomes the merge step returns a structurally
\* valid record, the same for the same list, whose value is that of the first successful
\* adapter in provider order, whatever the order the adapters completed in.
C22_MergeFirstSuccessWins ==
    \A f \in Fetches :
        (Configured # {} /\ fetch[f].pc = "done" /\ ~fetch[f].fromCache /\ ~fetch[f].thrown) =>
            /\ fetch[f].ret = MergeStrategy(fetch[f].method, fetch[f].mergeInput)
            /\ fetch[f].ret.tag = "object"
            /\ (FirstSuccess(fetch[f].mergeInput) # 0) =>
                    (fetch[f].ret.value = fetch[f].mergeInput[FirstSuccess(fetch[f].mergeInput)])

\* C23: constructing an aggregator with zero adapters registered throws, so no fetch is
\* ever made on such an aggregator (and the cache it builds has ttl > 0, maxSize > 0).
C23_NoFetchOnMisconfiguredAggregator ==
    \A f \in Fetches :
        (fetch[f].pc # "idle") =>
            (Len(providers) >= 1 /\ CacheTTL > 0 /\ CacheMaxSize > 0)

Settled(f, p) == fetch[f].calls[p].state \in {"fulfilled", "rejected"}

\* C28: on a cache miss every adapter call has been started before the aggregator
\* awaits, and once every call has settled the fetch can complete.
C28_AllCallsStartedBeforeAwait ==
    \A f \in Fetches :
        (fetch[f].pc = "awaiting") =>
            /\ \A p \in Configured : fetch[f].calls[p].state # "none"
            /\ (\A p \in Configured : Settled(f, p)) => ENABLED AwaitAll(f)

\* C28 witness: the second adapter's call has run to its result while the first
\* adapter's call is still held by its rate limiter.
C28_Witness ==
    \E f \in Fetches :
        /\ providers = AllProviders
        /\ fetch[f].pc = "awaiting"
        /\ fetch[f].calls["coingecko"].state = "acquiring"
        /\ CallOk(f, "cookiefun")

\* C30: every fetch eventually returns a result, even when the network call of one
\* adapter never settles.
C30_FetchEventuallyReturns ==
    \A f \in Fetches : (fetch[f].pc = "awaiting") ~> (fetch[f].pc = "done")


====
